---- MODULE Spec2Model ----
(***************************************************************************)
(* A verification model of parts of the octopus variant caller:            *)
(*   - option collation (src/src/config/option_collation.cpp):             *)
(*       caller selection, ploidy collation, search regions, temporary     *)
(*       directory creation;                                               *)
(*   - the BAM realigner (src/src/core/tools/bam_realigner.cpp);           *)
(*   - genome calling components (src/src/core/calling_components.cpp).    *)
(* Every subsystem has its own variables, initial predicate, next-state    *)
(* relation and specification; the variables of the other subsystems are   *)
(* held at their idle value in that specification.                         *)
(***************************************************************************)
EXTENDS Integers, Sequences, FiniteSets, TLC

VARIABLES
    \* ---- caller selection (get_caller_type) ----
    caller_pc,        \* "start" | "done"
    caller_options,   \* the option map: caller, maternal, paternal, normal
    caller_samples,   \* samples.size()
    caller_pedigree,  \* "none" | "trio" | "other": optional pedigree and whether is_trio holds of it
    caller_result,    \* the returned caller name
    \* ---- ploidy collation (get_ploidy_map) ----
    ploidy_pc,        \* "start" | "done" | "error"
    ploidy_caller,    \* options.at("caller")
    ploidy_file,      \* contig-ploidies-file: not set, missing, or present with its entries
    ploidy_option,    \* contig-ploidies: the entries of the option (<<>> when not set)
    flat_plodies,     \* the local vector of get_ploidy_map
    ploidy_error,     \* "none" | "MissingPloidyFile" | "AmbiguousPloidy"
    ploidy_map,       \* the returned PloidyMap, if one was returned
    \* ---- search regions (extract_search_regions, get_search_regions) ----
    sr_pc,            \* "start" | "done" | "error"
    sr_one_based,     \* options.at("one-based-indexing")
    sr_regions_set,   \* is_set("regions") or is_set("regions-file")
    sr_regions,       \* the parsed regions of regions and regions-file, as the user gave them
    sr_skips,         \* the parsed regions of skip-regions and skip-regions-file
    sr_result,        \* the returned InputRegionMap: contig -> sorted sequence of regions
    \* ---- BAM realigner (BAMRealigner::realign) ----
    ra_pc,            \* "loop" | "done"
    ra_config,        \* config_: copy_hom_ref_reads, primary_only
    ra_records,       \* the calls of the VCF, in file order
    ra_linked,        \* ra_linked[i]: call i carries the phase set of call i-1
    ra_reads,         \* the reads of the source BAM, in coordinate order
    ra_first,         \* the VCF iterator p.first: index of the next call to read
    ra_batch_region,  \* boost::optional<GenomicRegion> batch_region
    ra_written,       \* what the writer received, in order: [id, realigned]
    ra_calls,         \* the calls of remove_unalignable_reads / assign_and_realign made so far
    ra_report,        \* Report: n_reads_assigned, n_reads_unassigned
    \* ---- temporary directory (create_temp_file_directory) ----
    td_pc,            \* "call" | "done"
    td_fs,            \* candidate -> "free" | "exists" | "error": what create_directory meets
    td_tried,         \* the candidates create_directory was called on, in order
    td_created,       \* the candidates create_directory created
    td_outcome,       \* [kind: "none" | "returned" | "raised", path, error_code]
    \* ---- genome calling components (collate_genome_calling_components) ----
    gc_pc,            \* "call" | "done"
    gc_ignore_unmapped_contigs,  \* the option ignore-unmapped-contigs
    gc_buildable,     \* [reference, read_manager]: whether make_... succeeds
    gc_has_reads,     \* contig -> "true" | "false" | "throws": what rm.has_reads does
    gc_trace,         \* the calls made, in order
    gc_output_exists, \* the output VCF file has been created
    gc_outcome,       \* "none" | "components" | "UnmatchedReference" | "other error"
    \* ---- variant generator builder (make_variant_generator_builder) ----
    vg_pc,            \* "call" | "done" | "error"
    vg_in,            \* the options read and the files that exist
    vg_out,           \* the builder returned or the exception thrown
    \* ---- caller factory (make_caller_factory) ----
    cf_pc,            \* "call" | "done" | "error"
    cf_in,            \* the options, the samples and what the machine reports
    cf_out,           \* the builder's settings and the factory or exception
    \* ---- threads and the realigner's worker pool ----
    tp_pc,            \* "call" | "done"
    tp_in,            \* the threads option and hardware_concurrency()
    tp_out,           \* is_threading_allowed, get_num_threads, the pool size
    \* ---- contig output order (get_contigs) ----
    co_pc,            \* "call" | "done"
    co_in,            \* the contigs with search regions, the reference, the order
    co_out,           \* the contig list
    \* ---- htslib SAM facade (fetch_reads) ----
    hs_pc,            \* "call" | "done" | "error"
    hs_in,            \* the records of the region and the sample asked for
    hs_out,           \* the reads fetched or the exception
    \* ---- haplotype (push_back, push_front) ----
    hp_pc,            \* the number of pushes made, -1 before construction
    hp,               \* region_, explicit_alleles_, whether a push has raised
    \* ---- region range (make_region_range) ----
    rr_pc,            \* "call" | "done" | "error"
    rr_in,            \* the two regions of "A to B"
    rr_out,           \* the regions returned or the exception
    \* ---- progress meter ----
    pm_pc,            \* "live" | "destroyed"
    pm,               \* the fields of the ProgressMeter
    pm_thr,           \* the worker threads inside log_completed
    \* ---- working directory (get_working_directory) ----
    wd_pc,            \* "call" | "done" | "error"
    wd_in,            \* the option and the file system
    wd_out            \* the path returned or the exception

callerVars == <<caller_pc, caller_options, caller_samples, caller_pedigree, caller_result>>
ploidyVars == <<ploidy_pc, ploidy_caller, ploidy_file, ploidy_option, flat_plodies,
                ploidy_error, ploidy_map>>
regionVars == <<sr_pc, sr_one_based, sr_regions_set, sr_regions, sr_skips, sr_result>>
realignVars == <<ra_pc, ra_config, ra_records, ra_linked, ra_reads, ra_first,
                 ra_batch_region, ra_written, ra_calls, ra_report>>
tempDirVars == <<td_pc, td_fs, td_tried, td_created, td_outcome>>
componentVars == <<gc_pc, gc_ignore_unmapped_contigs, gc_buildable, gc_has_reads, gc_trace,
                   gc_output_exists, gc_outcome>>
generatorVars == <<vg_pc, vg_in, vg_out>>
factoryVars == <<cf_pc, cf_in, cf_out>>
poolVars == <<tp_pc, tp_in, tp_out>>
contigOrderVars == <<co_pc, co_in, co_out>>
samVars == <<hs_pc, hs_in, hs_out>>
haplotypeVars == <<hp_pc, hp>>
rangeVars == <<rr_pc, rr_in, rr_out>>
meterVars == <<pm_pc, pm, pm_thr>>
workingDirVars == <<wd_pc, wd_in, wd_out>>

\* what an operation of one part leaves alone: the variables of the other parts
callerFrame ==
    <<ploidyVars, regionVars, realignVars, tempDirVars, componentVars, generatorVars, factoryVars,
      poolVars, contigOrderVars, samVars, haplotypeVars, rangeVars, meterVars, workingDirVars>>
ploidyFrame ==
    <<callerVars, regionVars, realignVars, tempDirVars, componentVars, generatorVars, factoryVars,
      poolVars, contigOrderVars, samVars, haplotypeVars, rangeVars, meterVars, workingDirVars>>
regionFrame ==
    <<callerVars, ploidyVars, realignVars, tempDirVars, componentVars, generatorVars, factoryVars,
      poolVars, contigOrderVars, samVars, haplotypeVars, rangeVars, meterVars, workingDirVars>>
realignFrame ==
    <<callerVars, ploidyVars, regionVars, tempDirVars, componentVars, generatorVars, factoryVars,
      poolVars, contigOrderVars, samVars, haplotypeVars, rangeVars, meterVars, workingDirVars>>
tempDirFrame ==
    <<callerVars, ploidyVars, regionVars, realignVars, componentVars, generatorVars, factoryVars,
      poolVars, contigOrderVars, samVars, haplotypeVars, rangeVars, meterVars, workingDirVars>>
componentFrame ==
    <<callerVars, ploidyVars, regionVars, realignVars, tempDirVars, generatorVars, factoryVars,
      poolVars, contigOrderVars, samVars, haplotypeVars, rangeVars, meterVars, workingDirVars>>
generatorFrame ==
    <<callerVars, ploidyVars, regionVars, realignVars, tempDirVars, componentVars, factoryVars,
      poolVars, contigOrderVars, samVars, haplotypeVars, rangeVars, meterVars, workingDirVars>>
factoryFrame ==
    <<callerVars, ploidyVars, regionVars, realignVars, tempDirVars, componentVars, generatorVars,
      poolVars, contigOrderVars, samVars, haplotypeVars, rangeVars, meterVars, workingDirVars>>
poolFrame ==
    <<callerVars, ploidyVars, regionVars, realignVars, tempDirVars, componentVars, generatorVars,
      factoryVars, contigOrderVars, samVars, haplotypeVars, rangeVars, meterVars, workingDirVars>>
contigOrderFrame ==
    <<callerVars, ploidyVars, regionVars, realignVars, tempDirVars, componentVars, generatorVars,
      factoryVars, poolVars, samVars, haplotypeVars, rangeVars, meterVars, workingDirVars>>
samFrame ==
    <<callerVars, ploidyVars, regionVars, realignVars, tempDirVars, componentVars, generatorVars,
      factoryVars, poolVars, contigOrderVars, haplotypeVars, rangeVars, meterVars, workingDirVars>>
haplotypeFrame ==
    <<callerVars, ploidyVars, regionVars, realignVars, tempDirVars, componentVars, generatorVars,
      factoryVars, poolVars, contigOrderVars, samVars, rangeVars, meterVars, workingDirVars>>
rangeFrame ==
    <<callerVars, ploidyVars, regionVars, realignVars, tempDirVars, componentVars, generatorVars,
      factoryVars, poolVars, contigOrderVars, samVars, haplotypeVars, meterVars, workingDirVars>>
meterFrame ==
    <<callerVars, ploidyVars, regionVars, realignVars, tempDirVars, componentVars, generatorVars,
      factoryVars, poolVars, contigOrderVars, samVars, haplotypeVars, rangeVars, workingDirVars>>
workingDirFrame ==
    <<callerVars, ploidyVars, regionVars, realignVars, tempDirVars, componentVars, generatorVars,
      factoryVars, poolVars, contigOrderVars, samVars, haplotypeVars, rangeVars, meterVars>>

(***************************************************************************)
(* Generic helpers on sequences.                                           *)
(***************************************************************************)
Range(s) == {s[i] : i \in DOMAIN s}

SeqsUpTo(S, n) == UNION {[1..k -> S] : k \in 0..n}

\* all orderings of the elements of sequence s
Orderings(s) ==
    LET n == Len(s)
        bij == {f \in [1..n -> 1..n] : \A i, j \in 1..n : i # j => f[i] # f[j]}
    IN  {[i \in 1..n |-> s[f[i]]] : f \in bij}

Min2(a, b) == IF a <= b THEN a ELSE b
Max2(a, b) == IF a >= b THEN a ELSE b

(***************************************************************************)
(* CALLER SELECTION                                                        *)
(***************************************************************************)
CallerNames == {"individual", "population", "trio", "cancer", "polyclone", "cell"}

\* largest number of samples tried
MaxSamples == 3

CallerOptionMaps ==
    [caller : CallerNames, maternal : BOOLEAN, paternal : BOOLEAN, normal : BOOLEAN]

\* is_set("maternal-sample", options) etc.
is_set(name, options) ==
    CASE name = "maternal-sample" -> options.maternal
      [] name = "paternal-sample" -> options.paternal
      [] name = "normal-sample"   -> options.normal

\* is_trio(samples, pedigree) of a supplied pedigree: its outcome is an input
is_trio(pedigree) == pedigree = "trio"

\* mutants of get_caller_type
get_caller_type_trio_last(options, nsamples, pedigree) ==
    LET r0 == options.caller
        r1 == IF r0 = "population" /\ nsamples = 1 THEN "individual" ELSE r0
        r2 == IF is_set("normal-sample", options) THEN "cancer" ELSE r1
    IN  IF is_set("maternal-sample", options) \/ is_set("paternal-sample", options)
           \/ (pedigree # "none" /\ is_trio(pedigree))
        THEN "trio" ELSE r2

get_caller_type_no_paternal(options, nsamples, pedigree) ==
    LET r0 == options.caller
        r1 == IF r0 = "population" /\ nsamples = 1 THEN "individual" ELSE r0
        r2 == IF is_set("maternal-sample", options)
                  \/ (pedigree # "none" /\ is_trio(pedigree))
              THEN "trio" ELSE r1
    IN  IF is_set("normal-sample", options) THEN "cancer" ELSE r2

get_caller_type_le_one(options, nsamples, pedigree) ==
    LET r0 == options.caller
        r1 == IF r0 = "population" /\ nsamples <= 1 THEN "individual" ELSE r0
        r2 == IF is_set("maternal-sample", options) \/ is_set("paternal-sample", options)
                  \/ (pedigree # "none" /\ is_trio(pedigree))
              THEN "trio" ELSE r1
    IN  IF is_set("normal-sample", options) THEN "cancer" ELSE r2

\* option_collation.cpp:1469-1484
get_caller_type(options, nsamples, pedigree) ==
    LET r0 == options.caller
        r1 == IF r0 = "population" /\ nsamples = 1 THEN "individual" ELSE r0
        r2 == IF is_set("maternal-sample", options) \/ is_set("paternal-sample", options)
                  \/ (pedigree # "none" /\ is_trio(pedigree))
              THEN "trio" ELSE r1
    IN  IF is_set("normal-sample", options) THEN "cancer" ELSE r2

CallerInit ==
    /\ caller_pc = "start"
    /\ caller_options \in CallerOptionMaps
    /\ caller_samples \in 0..MaxSamples
    /\ caller_pedigree \in {"none", "trio", "other"}
    /\ caller_result = "unset"

CallerIdle ==
    /\ caller_pc = "idle"
    /\ caller_options = [caller |-> "individual", maternal |-> FALSE,
                         paternal |-> FALSE, normal |-> FALSE]
    /\ caller_samples = 0
    /\ caller_pedigree = "none"
    /\ caller_result = "unset"

\* the call of get_caller_type made by make_caller_factory
GetCallerType ==
    /\ caller_pc = "start"
    /\ caller_result' = get_caller_type(caller_options, caller_samples, caller_pedigree)
    /\ caller_pc' = "done"
    /\ UNCHANGED <<caller_options, caller_samples, caller_pedigree>>
    /\ UNCHANGED callerFrame

(***************************************************************************)
(* PLOIDY COLLATION                                                        *)
(* Sample and contig names are strings compared lexicographically; they    *)
(* are modelled as positive integers with the same order.  NoSample is     *)
(* the empty boost::optional<SampleName>.                                  *)
(***************************************************************************)
NoSample == 0
\* number of distinct sample names, contig names and ploidies tried
NumPloidySamples == 1
NumPloidyContigs == 2
NumPloidies == 2
\* largest number of ploidy entries gathered from the file and the option together
MaxPloidyEntries == 3
\* the value of organism-ploidy
OrganismPloidy == 2

ContigPloidies ==
    [sample : {NoSample} \cup (1..NumPloidySamples), contig : 1..NumPloidyContigs,
     ploidy : 1..NumPloidies]

\* option_collation.cpp:1138-1153
ContigPloidyLess(lhs, rhs) ==
    IF lhs.sample # NoSample
    THEN IF rhs.sample # NoSample /\ lhs.sample # rhs.sample
         THEN lhs.sample < rhs.sample
         ELSE TRUE
    ELSE IF rhs.sample # NoSample
         THEN FALSE
         ELSE IF lhs.contig = rhs.contig THEN lhs.ploidy < rhs.ploidy
                                         ELSE lhs.contig < rhs.contig

\* option_collation.cpp:1155-1161
ContigPloidyEqual(lhs, rhs) ==
    lhs.sample = rhs.sample /\ lhs.contig = rhs.contig /\ lhs.ploidy = rhs.ploidy

\* option_collation.cpp:1163-1174
ContigPloidyAmbiguous(lhs, rhs) ==
    IF lhs.sample # NoSample /\ rhs.sample # NoSample
    THEN lhs.sample = rhs.sample /\ lhs.contig = rhs.contig
    ELSE IF ~(lhs.sample # NoSample \/ rhs.sample # NoSample)
         THEN lhs.contig = rhs.contig
         ELSE FALSE

\* std::sort with ContigPloidyLess.  The comparator is not a strict weak
\* ordering (two entries of the same sample are each less than the other), so
\* the order std::sort leaves such entries in is not defined: every
\* permutation that inverts no pair the comparator orders one way only is an
\* outcome.
SortOutcomes(s) ==
    {p \in Orderings(s) :
        \A i, j \in 1..Len(p) :
            i < j => ~(ContigPloidyLess(p[j], p[i]) /\ ~ContigPloidyLess(p[i], p[j]))}

\* std::unique with ContigPloidyEqual: drops an entry equal to the one kept before it
RECURSIVE Unique(_)
Unique(s) ==
    IF Len(s) <= 1 THEN s
    ELSE LET u == Unique(SubSeq(s, 1, Len(s) - 1))
         IN  IF ContigPloidyEqual(u[Len(u)], s[Len(s)]) THEN u ELSE Append(u, s[Len(s)])

\* option_collation.cpp:1213-1218, one outcome for each outcome of the sort
remove_duplicate_ploidies(s) == {Unique(p) : p \in SortOutcomes(s)}

\* option_collation.cpp:1220-1224 (std::adjacent_find)
has_ambiguous_ploidies(s) ==
    \E i \in 1..(Len(s) - 1) : ContigPloidyAmbiguous(s[i], s[i + 1])

\* PloidyMap::set applied to the entries in order: the last entry of a key stays.
\* The map is the set of <<sample, contig, ploidy>> it holds.
LastOfKey(s, i) ==
    \A j \in DOMAIN s :
        (s[j].sample = s[i].sample /\ s[j].contig = s[i].contig) => j <= i

make_ploidy_map(default, s) ==
    [returned |-> TRUE, default |-> default,
     entries |-> {<<s[i].sample, s[i].contig, s[i].ploidy>> : i \in {k \in DOMAIN s : LastOfKey(s, k)}}]

NoPloidyMap == [returned |-> FALSE, default |-> 0, entries |-> {}]

PloidyInit ==
    /\ ploidy_pc = "start"
    /\ ploidy_caller \in {"population", "polyclone"}
    /\ \E all \in SeqsUpTo(ContigPloidies, MaxPloidyEntries) :
          \E k \in 0..Len(all) :
             /\ ploidy_file \in
                   IF k = 0
                   THEN [state : {"notset", "missing", "present"}, entries : {<<>>}]
                   ELSE [state : {"present"}, entries : {SubSeq(all, 1, k)}]
             /\ ploidy_option = SubSeq(all, k + 1, Len(all))
    /\ flat_plodies = <<>>
    /\ ploidy_error = "none"
    /\ ploidy_map = NoPloidyMap

PloidyIdle ==
    /\ ploidy_pc = "idle"
    /\ ploidy_caller = "population"
    /\ ploidy_file = [state |-> "notset", entries |-> <<>>]
    /\ ploidy_option = <<>>
    /\ flat_plodies = <<>>
    /\ ploidy_error = "none"
    /\ ploidy_map = NoPloidyMap

\* the entries gathered from contig-ploidies-file and contig-ploidies (1241-1259)
GatheredPloidies == ploidy_file.entries \o ploidy_option

\* option_collation.cpp:1236-1273
GetPloidyMap ==
    /\ ploidy_pc = "start"
    /\ \/ /\ ploidy_caller = "polyclone"
          /\ ploidy_map' = [returned |-> TRUE, default |-> 1, entries |-> {}]
          /\ ploidy_pc' = "done"
          /\ UNCHANGED <<flat_plodies, ploidy_error>>
       \/ /\ ploidy_caller # "polyclone"
          /\ ploidy_file.state = "missing"
          /\ ploidy_error' = "MissingPloidyFile"
          /\ ploidy_pc' = "error"
          /\ UNCHANGED <<flat_plodies, ploidy_map>>
       \/ /\ ploidy_caller # "polyclone"
          /\ ploidy_file.state # "missing"
          /\ \E deduped \in remove_duplicate_ploidies(GatheredPloidies) :
                /\ flat_plodies' = deduped
                /\ IF has_ambiguous_ploidies(deduped)
                   THEN /\ ploidy_error' = "AmbiguousPloidy"
                        /\ ploidy_pc' = "error"
                        /\ UNCHANGED ploidy_map
                   ELSE /\ ploidy_map' = make_ploidy_map(OrganismPloidy, deduped)
                        /\ ploidy_pc' = "done"
                        /\ UNCHANGED ploidy_error
    /\ UNCHANGED <<ploidy_caller, ploidy_file, ploidy_option>>
    /\ UNCHANGED ploidyFrame

(***************************************************************************)
(* SEARCH REGIONS                                                          *)
(* A GenomicRegion is [contig, begin, end], zero-based half-open, with     *)
(* begin <= end.  Contig names are modelled as integers in name order.     *)
(* A MappableFlatSet<GenomicRegion> is a sorted sequence without           *)
(* duplicates; an InputRegionMap is a function from the contigs it holds.  *)
(***************************************************************************)
\* largest position of a region on contig 1
MaxPos == 3
\* largest number of regions in the regions list and the skip list together
MaxRegions == 3

\* the reference: contig 1 of MaxPos bases and contig 2 of one base
ReferenceContigs == {1, 2}
contig_size(contig) == IF contig = 1 THEN MaxPos ELSE 1

Region(contig, begin, end) == [contig |-> contig, begin |-> begin, end |-> end]

AllRegions ==
    {Region(c, b, e) : c \in ReferenceContigs, b \in 0..MaxPos, e \in 0..MaxPos}

\* the regions a user can name: begin <= end, inside the contig
UserRegions ==
    {r \in AllRegions : r.begin <= r.end /\ r.end <= contig_size(r.contig)
                        /\ (r.contig = 2 => r.begin < r.end)}

is_empty(r) == r.begin = r.end
region_size(r) == r.end - r.begin
is_same_contig(a, b) == a.contig = b.contig
begins_before(a, b) == a.begin < b.begin
ends_before(a, b) == a.end < b.end
overlap_size(a, b) == Min2(a.end, b.end) - Max2(a.begin, b.begin)

overlaps(a, b) ==
    /\ is_same_contig(a, b)
    /\ \/ overlap_size(a, b) > 0
       \/ (overlap_size(a, b) = 0 /\ (is_empty(a) \/ is_empty(b)))

contains(a, b) == is_same_contig(a, b) /\ a.begin <= b.begin /\ b.end <= a.end

\* GenomicRegion operator<
RegionLess(a, b) ==
    \/ a.contig < b.contig
    \/ a.contig = b.contig /\ a.begin < b.begin
    \/ a.contig = b.contig /\ a.begin = b.begin /\ a.end < b.end

closed_region(a, b) == Region(a.contig, a.begin, b.end)

left_overhang_region(a, b) ==
    IF begins_before(a, b) THEN Region(a.contig, a.begin, b.begin)
                           ELSE Region(a.contig, a.begin, a.begin)

right_overhang_region(a, b) ==
    IF ends_before(b, a) THEN Region(a.contig, b.end, a.end)
                         ELSE Region(a.contig, a.end, a.end)

intervening_region(a, b) == Region(a.contig, a.end, b.begin)

\* the positions a region covers, and those a sequence of regions covers
Positions(r) == {<<r.contig, x>> : x \in r.begin..(r.end - 1)}
Covered(s) == UNION {Positions(s[i]) : i \in DOMAIN s}

\* insertion into a sorted sequence; an element already there is not added
\* again when unique is TRUE (MappableFlatSet::insert / emplace)
RECURSIVE SortedInsert(_, _, _)
SortedInsert(s, r, unique) ==
    IF s = <<>> THEN <<r>>
    ELSE IF unique /\ Head(s) = r THEN s
    ELSE IF RegionLess(r, Head(s)) THEN <<r>> \o s
    ELSE <<Head(s)>> \o SortedInsert(Tail(s), r, unique)

\* std::sort of a vector of regions
RECURSIVE SortRegions(_)
SortRegions(s) ==
    IF s = <<>> THEN <<>> ELSE SortedInsert(SortRegions(Tail(s)), Head(s), FALSE)

RECURSIVE InsertAll(_, _)
InsertAll(set, s) ==
    IF s = <<>> THEN set ELSE InsertAll(SortedInsert(set, Head(s), TRUE), Tail(s))

\* the regions of a sorted sequence merged into the minimal sequence of
\* regions covering them: a region starts a new covered region when it
\* begins after the rightmost end seen so far
RECURSIVE CoveredFrom(_, _, _, _)
CoveredFrom(s, i, first_overlapped, rightmost) ==
    IF i > Len(s) THEN <<closed_region(first_overlapped, rightmost)>>
    ELSE IF s[i].begin > rightmost.end
         THEN <<closed_region(first_overlapped, rightmost)>> \o CoveredFrom(s, i + 1, s[i], s[i])
         ELSE IF ends_before(rightmost, s[i])
              THEN CoveredFrom(s, i + 1, first_overlapped, s[i])
              ELSE CoveredFrom(s, i + 1, first_overlapped, rightmost)

extract_covered_regions(s) ==
    IF s = <<>> THEN <<>> ELSE CoveredFrom(s, 1, s[1], s[1])

\* MappableFlatSet::overlap_range: the elements that overlap the region
overlap_range(set, r) == SelectSeq(set, LAMBDA x : overlaps(x, r))

extract_intervening_regions(s) ==
    [i \in 1..(Len(s) - 1) |-> intervening_region(s[i], s[i + 1])]

\* shift(region, n); a shift past the start of the contig throws std::out_of_range
shift_fails(r, n) == r.begin + n < 0
shift(r, n) == Region(r.contig, r.begin + n, r.end + n)

get_all_contig_regions ==
    SortRegions([c \in 1..Cardinality(ReferenceContigs) |-> Region(c, 0, contig_size(c))])

OnContig(s, c) == SelectSeq(s, LAMBDA r : r.contig = c)

\* option_collation.cpp:323-340
make_search_regions(regions) ==
    [c \in {regions[i].contig : i \in DOMAIN regions} |->
        extract_covered_regions(SortRegions(OnContig(regions, c)))]

\* the regions get_unskipped adds for one region (option_collation.cpp:352-366)
UnskippedOf(region, skips) ==
    LET overlapped == overlap_range(skips, region)
        front == overlapped[1]
        back == overlapped[Len(overlapped)]
    IN  IF overlapped = <<>> THEN <<region>>
        ELSE IF ~contains(front, region)
             THEN (IF begins_before(region, front)
                   THEN <<left_overhang_region(region, front)>> ELSE <<>>)
                  \o extract_intervening_regions(overlapped)
                  \o (IF ends_before(back, region)
                      THEN <<right_overhang_region(region, back)>> ELSE <<>>)
             ELSE <<>>

RECURSIVE UnskippedFrom(_, _, _, _)
UnskippedFrom(regions, skips, i, result) ==
    IF i > Len(regions) THEN result
    ELSE UnskippedFrom(regions, skips, i + 1, InsertAll(result, UnskippedOf(regions[i], skips)))

\* a mutant of get_unskipped: a region that overlaps no skip region is left out
get_unskipped_mutant(regions, skips) ==
    IF skips = <<>> THEN regions
    ELSE UnskippedFrom(SelectSeq(regions, LAMBDA r : overlap_range(skips, r) # <<>>),
                       skips, 1, <<>>)

\* option_collation.cpp:347-370
get_unskipped(regions, skips) ==
    IF skips = <<>> THEN regions ELSE UnskippedFrom(regions, skips, 1, <<>>)

\* option_collation.cpp:372-396
extract_search_regions(regions, skip_regions) ==
    LET input_regions == make_search_regions(regions)
        skipped == make_search_regions(skip_regions)
        result == [c \in DOMAIN input_regions |->
                      IF c \in DOMAIN skipped
                      THEN get_unskipped(input_regions[c], skipped[c])
                      ELSE input_regions[c]]
    IN  [c \in {d \in DOMAIN result : result[d] # <<>>} |-> result[c]]

\* option_collation.cpp:398-402
extract_reference_search_regions(skip_regions) ==
    extract_search_regions(get_all_contig_regions, skip_regions)

\* option_collation.cpp:481-493: a region that begins at 0 is left as it is
transform_to_zero_based_vector(one_based_regions) ==
    [i \in DOMAIN one_based_regions |->
        IF one_based_regions[i].begin > 0 THEN shift(one_based_regions[i], -1)
                                          ELSE one_based_regions[i]]

\* option_collation.cpp:495-511: every region of the map is shifted
transform_to_zero_based_fails(one_based_search_regions) ==
    \E c \in DOMAIN one_based_search_regions :
        \E i \in DOMAIN one_based_search_regions[c] :
            shift_fails(one_based_search_regions[c][i], -1)

transform_to_zero_based_map(one_based_search_regions) ==
    [c \in DOMAIN one_based_search_regions |->
        InsertAll(<<>>, [i \in DOMAIN one_based_search_regions[c] |->
                            shift(one_based_search_regions[c][i], -1)])]

EmptyRegionMap == [c \in {} |-> <<>>]

RegionLists == SeqsUpTo(UserRegions, MaxRegions)

RegionsIdle ==
    /\ sr_pc = "idle"
    /\ sr_one_based = FALSE
    /\ sr_regions_set = FALSE
    /\ sr_regions = <<>>
    /\ sr_skips = <<>>
    /\ sr_result = EmptyRegionMap

\* inputs of extract_search_regions(regions, skip_regions)
ExtractInit ==
    /\ sr_pc = "start"
    /\ sr_one_based = FALSE
    /\ sr_regions_set = TRUE
    /\ \E all \in RegionLists :
          \E k \in 0..Len(all) :
             /\ sr_regions = SubSeq(all, 1, k)
             /\ sr_skips = SubSeq(all, k + 1, Len(all))
    /\ sr_result = EmptyRegionMap

\* inputs of get_search_regions(options, reference)
SearchInit ==
    /\ sr_pc = "start"
    /\ sr_one_based \in BOOLEAN
    /\ sr_regions_set \in BOOLEAN
    /\ \E all \in RegionLists :
          \E k \in 0..Len(all) :
             /\ sr_regions = SubSeq(all, 1, k)
             /\ sr_skips = SubSeq(all, k + 1, Len(all))
    /\ (~sr_regions_set => sr_regions = <<>>)
    /\ sr_result = EmptyRegionMap

\* option_collation.cpp:372-396
ExtractSearchRegions ==
    /\ sr_pc = "start"
    /\ sr_result' = extract_search_regions(sr_regions, sr_skips)
    /\ sr_pc' = "done"
    /\ UNCHANGED <<sr_one_based, sr_regions_set, sr_regions, sr_skips>>
    /\ UNCHANGED regionFrame

\* option_collation.cpp:523-582, with the region lists already parsed
GetSearchRegions ==
    /\ sr_pc = "start"
    /\ LET skip_regions == IF sr_one_based THEN transform_to_zero_based_vector(sr_skips)
                                           ELSE sr_skips
           result == extract_search_regions(sr_regions, skip_regions)
       IN  \/ /\ ~sr_regions_set
              /\ sr_result' = extract_reference_search_regions(skip_regions)
              /\ sr_pc' = "done"
           \/ /\ sr_regions_set
              /\ ~sr_one_based
              /\ sr_result' = result
              /\ sr_pc' = "done"
           \/ /\ sr_regions_set
              /\ sr_one_based
              /\ ~transform_to_zero_based_fails(result)
              /\ sr_result' = transform_to_zero_based_map(result)
              /\ sr_pc' = "done"
           \/ /\ sr_regions_set
              /\ sr_one_based
              /\ transform_to_zero_based_fails(result)
              /\ sr_result' = EmptyRegionMap
              /\ sr_pc' = "error"
    /\ UNCHANGED <<sr_one_based, sr_regions_set, sr_regions, sr_skips>>
    /\ UNCHANGED regionFrame

(***************************************************************************)
(* BAM REALIGNER                                                           *)
(* One sample.  A read is [contig, begin, end, valid, primary]; valid is   *)
(* is_valid(read.cigar()).  Reads are named by their index in the source.  *)
(* A batch holds a set of genotypes (their regions, sorted) and a sorted   *)
(* sequence of reads.                                                      *)
(***************************************************************************)
\* number of bases of contig 1 of the realigner's reference
RealignContigLen == 5
\* largest number of calls in the VCF and of reads in the source
MaxRecords == 2
MaxReads == 2

realign_contig_size(contig) == IF contig = 1 THEN RealignContigLen ELSE 2
realign_contig_region(contig) == Region(contig, 0, realign_contig_size(contig))

NoRegion == Region(0, 0, 0)
has_region(r) == r.contig # 0

expand(r, lhs, rhs) == Region(r.contig, r.begin - lhs, r.end + rhs)
expand_lhs(r, n) == expand(r, n, 0)
expand_rhs(r, n) == expand(r, 0, n)
intervening_region_size(a, b) == b.begin - a.end

ReadRegion(id) == Region(ra_reads[id].contig, ra_reads[id].begin, ra_reads[id].end)

\* the phase region of call i: the region of its phase set, or its own region
PhaseRegion(i) ==
    LET n == Len(ra_records)
        lo == CHOOSE k \in 1..i : ~ra_linked[k] /\ \A m \in (k + 1)..i : ra_linked[m]
        hi == CHOOSE k \in i..n :
                 /\ (k = n \/ ~ra_linked[k + 1])
                 /\ \A m \in (i + 1)..k : ra_linked[m]
    IN  Region(ra_records[i].contig, ra_records[lo].begin, ra_records[hi].end)

\* a mutant of read_next_block: every block holds one call
read_next_block_mutant(first) == first

\* bam_realigner.cpp:409-422: the index of the last call of the block that begins at first
RECURSIVE BlockEnd(_, _)
BlockEnd(first, back) ==
    IF back < Len(ra_records) /\ overlaps(PhaseRegion(back), PhaseRegion(back + 1))
    THEN BlockEnd(first, back + 1)
    ELSE back

read_next_block(first) == BlockEnd(first, first)

\* ReadReader::fetch_reads: the reads that overlap the region, in coordinate order
fetch_reads(region) ==
    SelectSeq([i \in DOMAIN ra_reads |-> i], LAMBDA id : overlaps(ReadRegion(id), region))

\* bam_realigner.cpp:431-435
filter_primary(ids) == SelectSeq(ids, LAMBDA id : ra_reads[id].primary)

\* bam_realigner.cpp:442-446
erase_overlapped(ids, region) == SelectSeq(ids, LAMBDA id : ~overlaps(ReadRegion(id), region))

\* encompassing_region of a non-empty sequence of reads
reads_encompassing_region(ids) ==
    LET lo == CHOOSE i \in Range(ids) : \A j \in Range(ids) : ra_reads[i].begin <= ra_reads[j].begin
        hi == CHOOSE i \in Range(ids) : \A j \in Range(ids) : ra_reads[i].end >= ra_reads[j].end
    IN  Region(ra_reads[lo].contig, ra_reads[lo].begin, ra_reads[hi].end)

ReadIdLess(a, b) == RegionLess(ReadRegion(a), ReadRegion(b))
WrittenLess(a, b) == ReadIdLess(a.id, b.id)

\* std::inplace_merge of two sorted sequences of reads: those of dst go first among equals
RECURSIVE merge_reads(_, _)
merge_reads(dst, src) ==
    IF src = <<>> THEN dst
    ELSE IF dst = <<>> THEN src
    ELSE IF ReadIdLess(Head(src), Head(dst))
         THEN <<Head(src)>> \o merge_reads(dst, Tail(src))
         ELSE <<Head(dst)>> \o merge_reads(Tail(dst), src)

\* the same merge for annotated reads
RECURSIVE merge_annotated(_, _)
merge_annotated(dst, src) ==
    IF src = <<>> THEN dst
    ELSE IF dst = <<>> THEN src
    ELSE IF WrittenLess(Head(src), Head(dst))
         THEN <<Head(src)>> \o merge_annotated(dst, Tail(src))
         ELSE <<Head(dst)>> \o merge_annotated(Tail(dst), src)

\* the region a batch fetches its reads from (bam_realigner.cpp:461-477)
batch_fetch_region(block_region, first, prev) ==
    LET more == first <= Len(ra_records)
                   /\ ra_records[first].contig = block_region.contig
        next == Region(ra_records[first].contig, ra_records[first].begin, ra_records[first].end)
    IN  IF ~ra_config.copy_hom_ref_reads THEN block_region
        ELSE IF has_region(prev) /\ is_same_contig(block_region, prev)
             THEN LET r == right_overhang_region(block_region, prev)
                  IN  IF more THEN expand_rhs(r, intervening_region_size(r, next) \div 2)
                      ELSE closed_region(r, realign_contig_region(prev.contig))
             ELSE IF more
                  THEN expand(block_region, block_region.begin,
                              intervening_region_size(block_region, next) \div 2)
                  ELSE expand_lhs(block_region, block_region.begin)

fetch_pad == IF ra_config.copy_hom_ref_reads THEN 0 ELSE 10

\* bam_realigner.cpp:493-498: the batch of the following block is read with this
\* batch's region as prev_batch_region and merged into this batch
merge_next_batch(genotype, reads, batch_region, p) ==
    [genotypes |-> <<genotype>> \o p.genotypes,
     reads |-> merge_reads(reads, p.reads),
     region |-> closed_region(batch_region, p.region),
     first |-> p.first]

\* bam_realigner.cpp:450-511, for a VCF iterator that is not at its end.
\* Returns the batch (genotypes, reads), the batch region and the iterator.
RECURSIVE read_next_batch(_, _)

\* bam_realigner.cpp:478-498: the reads of the batch region are fetched, those
\* that overlap prev_batch_region are erased
fetch_batch(after, prev, genotype, batch_region) ==
    LET fetched == fetch_reads(expand(batch_region, fetch_pad, fetch_pad))
        kept == IF ra_config.primary_only THEN filter_primary(fetched) ELSE fetched
        reads == IF has_region(prev) THEN erase_overlapped(kept, expand_rhs(prev, fetch_pad))
                                     ELSE kept
        recurse == /\ after <= Len(ra_records)
                   /\ kept # <<>>
                   /\ overlaps(Region(ra_records[after].contig, ra_records[after].begin,
                                      ra_records[after].end),
                               reads_encompassing_region(kept))
    IN  IF recurse
        THEN merge_next_batch(genotype, reads, batch_region,
                              read_next_batch(after, batch_region))
        ELSE [genotypes |-> <<genotype>>, reads |-> reads,
              region |-> batch_region, first |-> after]

\* bam_realigner.cpp:459-477: the block's calls make one genotype, over the
\* region of the block
read_block_batch(first, back, prev) ==
    LET block_region == Region(ra_records[first].contig, ra_records[first].begin,
                               ra_records[back].end)
    IN  fetch_batch(back + 1, prev, block_region,
                    batch_fetch_region(block_region, back + 1, prev))

read_next_batch(first, prev) == read_block_batch(first, read_next_block(first), prev)

\* a mutant of is_alignable: every read is taken as alignable
is_alignable_mutant(id) == TRUE

\* bam_realigner.cpp:55-58
is_alignable(id) == ra_reads[id].valid

\* bam_realigner.cpp:60-66: std::stable_partition, then the bad reads are split off
remove_unalignable_reads(ids) ==
    [reads |-> SelectSeq(ids, LAMBDA id : is_alignable(id)),
     bad |-> SelectSeq(ids, LAMBDA id : ~is_alignable(id))]

\* bam_realigner.cpp:311-317
to_annotated(ids) == [i \in DOMAIN ids |-> [id |-> ids[i], realigned |-> FALSE]]

\* bam_realigner.cpp:268-309: every read given is realigned to a haplotype;
\* only the heterozygous branch counts them in n_reads_assigned
assign_and_realign(ids, homozygous) ==
    [realignments |-> [i \in DOMAIN ids |-> [id |-> ids[i], realigned |-> TRUE]],
     n_assigned |-> IF homozygous THEN 0 ELSE Len(ids)]

\* overlap_range(first, last, region) and bases(): the positions, from itr on,
\* of the first and of the last read that overlaps the region; <<0, 0>> if none
overlapped_span(reads, itr, region) ==
    LET hits == {i \in itr..Len(reads) : overlaps(ReadRegion(reads[i]), region)}
    IN  IF hits = {} THEN <<0, 0>>
        ELSE <<CHOOSE i \in hits : \A j \in hits : i <= j,
               CHOOSE i \in hits : \A j \in hits : i >= j>>

\* bam_realigner.cpp:348-357: the body of the loop over genotypes, for the
\* span of reads that overlap_range found; st.itr is sample_reads_itr
process_genotype(st, homozygous, span) ==
    LET none == span[1] = 0
        genotype_reads == IF none THEN <<>> ELSE SubSeq(st.reads, span[1], span[2])
        split == remove_unalignable_reads(genotype_reads)
        done == assign_and_realign(split.reads, homozygous)
    IN  [reads |-> IF none THEN st.reads
                   ELSE SubSeq(st.reads, 1, span[1] - 1)
                        \o SubSeq(st.reads, span[2] + 1, Len(st.reads)),
         itr |-> IF none THEN Len(st.reads) + 1 ELSE span[1],
         realigned_reads |->
             merge_annotated(st.realigned_reads,
                             merge_annotated(done.realignments, to_annotated(split.bad))),
         calls |-> Append(st.calls, [given |-> genotype_reads, reads |-> split.reads,
                                     bad |-> split.bad]),
         n_assigned |-> st.n_assigned + done.n_assigned,
         n_unassigned |-> st.n_unassigned + Len(split.bad)]

\* bam_realigner.cpp:347-358: the genotypes of a batch processed in order.
\* homs[k] is genotype.is_homozygous() of the k-th genotype.
RECURSIVE process_genotypes(_, _, _, _)
process_genotypes(genotypes, homs, k, st) ==
    IF k > Len(genotypes) THEN st
    ELSE process_genotypes(genotypes, homs, k + 1,
            process_genotype(st, homs[k],
                overlapped_span(st.reads, st.itr, expand(genotypes[k], 1, 1))))

\* the reads of the source are one base long
ReadLengths == {1}

ReadSpans ==
    {Region(1, b, b + n) : b \in 0..(RealignContigLen - 1), n \in ReadLengths} \cup
    {Region(2, 0, 2)}

AlignedReads ==
    {[contig |-> r.contig, begin |-> r.begin, end |-> r.end, valid |-> v, primary |-> TRUE] :
        r \in {x \in ReadSpans : x.end <= realign_contig_size(x.contig)}, v \in BOOLEAN}

\* calls are single bases, not at position 0
Calls ==
    {Region(1, b, b + 1) : b \in 1..(RealignContigLen - 1)} \cup {Region(2, 1, 2)}

SortedBy(s, less(_, _)) == \A i \in 1..(Len(s) - 1) : ~less(s[i + 1], s[i])

RealignIdle ==
    /\ ra_pc = "idle"
    /\ ra_config = [copy_hom_ref_reads |-> TRUE, primary_only |-> FALSE]
    /\ ra_records = <<>>
    /\ ra_linked = <<>>
    /\ ra_reads = <<>>
    /\ ra_first = 1
    /\ ra_batch_region = NoRegion
    /\ ra_written = <<>>
    /\ ra_calls = <<>>
    /\ ra_report = [n_reads_assigned |-> 0, n_reads_unassigned |-> 0]

\* the realigner is run with copy_hom_ref_reads on and primary_only off; the
\* calls are sorted and distinct, the reads sorted
RealignInit ==
    /\ ra_pc = "loop"
    /\ ra_config = [copy_hom_ref_reads |-> TRUE, primary_only |-> FALSE]
    /\ ra_records \in {s \in SeqsUpTo(Calls, MaxRecords) :
                          \A i \in 1..(Len(s) - 1) : RegionLess(s[i], s[i + 1])}
    /\ ra_linked \in {l \in [DOMAIN ra_records -> BOOLEAN] :
                         \A i \in DOMAIN l :
                            l[i] => (i > 1 /\ ra_records[i].contig = ra_records[i - 1].contig)}
    /\ ra_reads \in {s \in SeqsUpTo(AlignedReads, MaxReads) :
                        SortedBy(s, LAMBDA a, b :
                            RegionLess(Region(a.contig, a.begin, a.end),
                                       Region(b.contig, b.begin, b.end)))}
    /\ ra_first = 1
    /\ ra_batch_region = NoRegion
    /\ ra_written = <<>>
    /\ ra_calls = <<>>
    /\ ra_report = [n_reads_assigned |-> 0, n_reads_unassigned |-> 0]

\* bam_realigner.cpp:341-363: one pass of the loop of realign
RealignBatch ==
    /\ ra_pc = "loop"
    /\ ra_first <= Len(ra_records)
    /\ \E b \in {read_next_batch(ra_first, ra_batch_region)} :
       \E homs \in [DOMAIN b.genotypes -> BOOLEAN] :
       \E st \in {process_genotypes(b.genotypes, homs, 1,
                     [reads |-> b.reads, itr |-> 1, realigned_reads |-> <<>>,
                      calls |-> <<>>, n_assigned |-> 0, n_unassigned |-> 0])} :
          /\ ra_written' = ra_written
                              \o merge_annotated(st.realigned_reads, to_annotated(st.reads))
          /\ ra_calls' = ra_calls \o st.calls
          /\ ra_report' =
                [n_reads_assigned |-> ra_report.n_reads_assigned + st.n_assigned,
                 n_reads_unassigned |-> ra_report.n_reads_unassigned + st.n_unassigned]
          /\ ra_batch_region' = closed_region(b.genotypes[1], b.genotypes[Len(b.genotypes)])
          /\ ra_first' = b.first
    /\ UNCHANGED <<ra_pc, ra_config, ra_records, ra_linked, ra_reads>>
    /\ UNCHANGED realignFrame

\* bam_realigner.cpp:341, 364: the iterator is at its end, the report is returned
RealignReturn ==
    /\ ra_pc = "loop"
    /\ ra_first > Len(ra_records)
    /\ ra_pc' = "done"
    /\ UNCHANGED <<ra_config, ra_records, ra_linked, ra_reads, ra_first, ra_batch_region,
                   ra_written, ra_calls, ra_report>>
    /\ UNCHANGED realignFrame

(***************************************************************************)
(* TEMPORARY DIRECTORY                                                     *)
(* Candidate 1 is the path prefix, candidate k > 1 the path prefix-k.      *)
(***************************************************************************)
\* the source's limit of 10'000, scaled down
temp_dir_name_count_limit == 4

TempCandidates == 1..temp_dir_name_count_limit

NoOutcome == [kind |-> "none", path |-> 0, error_code |-> FALSE]

\* option_collation.cpp:2092-2105: the while loop.  result is the candidate
\* about to be tried, counter is temp_dir_counter.  Gives the state the
\* loop is left in, or the exception thrown inside it.
RECURSIVE temp_dir_loop(_, _, _, _)
temp_dir_loop(fs, result, counter, tried) ==
    IF fs[result] = "free"
    THEN [thrown |-> FALSE, result |-> result, counter |-> counter,
          tried |-> Append(tried, result), created |-> {result}]
    ELSE IF counter <= temp_dir_name_count_limit
         THEN IF fs[result] = "error"
              THEN [thrown |-> TRUE, result |-> result, counter |-> counter,
                    tried |-> Append(tried, result), created |-> {}]
              ELSE temp_dir_loop(fs, counter, counter + 1, Append(tried, result))
         ELSE [thrown |-> FALSE, result |-> result, counter |-> counter,
               tried |-> Append(tried, result), created |-> {}]

\* option_collation.cpp:2082-2112
create_temp_file_directory(fs) ==
    LET left == temp_dir_loop(fs, 1, 2, <<>>)
    IN  [tried |-> left.tried,
         created |-> left.created,
         outcome |->
            IF left.thrown
            THEN [kind |-> "raised", path |-> left.result, error_code |-> TRUE]
            ELSE IF left.counter > temp_dir_name_count_limit
                 THEN [kind |-> "raised", path |-> left.result, error_code |-> FALSE]
                 ELSE [kind |-> "returned", path |-> left.result, error_code |-> FALSE]]

TempDirIdle ==
    /\ td_pc = "idle"
    /\ td_fs = [k \in TempCandidates |-> "free"]
    /\ td_tried = <<>>
    /\ td_created = {}
    /\ td_outcome = NoOutcome

TempDirInit ==
    /\ td_pc = "call"
    /\ td_fs \in [TempCandidates -> {"free", "exists", "error"}]
    /\ td_tried = <<>>
    /\ td_created = {}
    /\ td_outcome = NoOutcome

CreateTempFileDirectory ==
    /\ td_pc = "call"
    /\ \E done \in {create_temp_file_directory(td_fs)} :
          /\ td_tried' = done.tried
          /\ td_created' = done.created
          /\ td_outcome' = done.outcome
          /\ td_fs' = [k \in TempCandidates |->
                          IF k \in done.created THEN "exists" ELSE td_fs[k]]
    /\ td_pc' = "done"
    /\ UNCHANGED tempDirFrame

(***************************************************************************)
(* GENOME CALLING COMPONENTS                                               *)
(***************************************************************************)
\* number of contigs of the reference
NumContigs == 3

GenomeContigs == 1..NumContigs

\* the contigs, in the order of reference.contig_names()
contig_names == [i \in GenomeContigs |-> i]

\* calling_components.cpp:514-522 with ok = rm.has_reads(...): a mutant of
\* contig_is_mapped that takes a contig without reads as unmapped
contig_is_mapped_mutant(has_reads, contig) == has_reads[contig] = "true"

\* calling_components.cpp:514-522: the lambda; only an exception clears ok
contig_is_mapped(has_reads, contig) == has_reads[contig] # "throws"

\* std::all_of: the contigs queried, up to and including the first unmapped one
RECURSIVE queried_contigs(_, _)
queried_contigs(has_reads, i) ==
    IF i > Len(contig_names) THEN <<>>
    ELSE IF contig_is_mapped(has_reads, contig_names[i])
         THEN <<contig_names[i]>> \o queried_contigs(has_reads, i + 1)
         ELSE <<contig_names[i]>>

\* calling_components.cpp:510-523
all_reference_contigs_mapped(has_reads) ==
    \A i \in DOMAIN contig_names : contig_is_mapped(has_reads, contig_names[i])

\* calling_components.cpp:561-576
collate_genome_calling_components(ignore, buildable, has_reads) ==
    IF ~buildable.reference
    THEN [trace |-> <<"make_reference">>, output |-> FALSE, outcome |-> "other error"]
    ELSE IF ~buildable.read_manager
    THEN [trace |-> <<"make_reference", "make_read_manager">>, output |-> FALSE,
          outcome |-> "other error"]
    ELSE IF ignore
    THEN [trace |-> <<"make_reference", "make_read_manager", "make_output_vcf_writer">>,
          output |-> TRUE, outcome |-> "components"]
    ELSE LET queries == [i \in DOMAIN queried_contigs(has_reads, 1) |-> "has_reads"]
         IN  IF ~all_reference_contigs_mapped(has_reads)
             THEN [trace |-> <<"make_reference", "make_read_manager">> \o queries,
                   output |-> FALSE, outcome |-> "UnmatchedReference"]
             ELSE [trace |-> <<"make_reference", "make_read_manager">> \o queries
                                \o <<"make_output_vcf_writer">>,
                   output |-> TRUE, outcome |-> "components"]

ComponentsIdle ==
    /\ gc_pc = "idle"
    /\ gc_ignore_unmapped_contigs = FALSE
    /\ gc_buildable = [reference |-> TRUE, read_manager |-> TRUE]
    /\ gc_has_reads = [c \in GenomeContigs |-> "true"]
    /\ gc_trace = <<>>
    /\ gc_output_exists = FALSE
    /\ gc_outcome = "none"

ComponentsInit ==
    /\ gc_pc = "call"
    /\ gc_ignore_unmapped_contigs \in BOOLEAN
    /\ gc_buildable \in [reference : BOOLEAN, read_manager : BOOLEAN]
    /\ gc_has_reads \in [GenomeContigs -> {"true", "false", "throws"}]
    /\ gc_trace = <<>>
    /\ gc_output_exists = FALSE
    /\ gc_outcome = "none"

CollateGenomeCallingComponents ==
    /\ gc_pc = "call"
    /\ \E done \in {collate_genome_calling_components(gc_ignore_unmapped_contigs,
                                                       gc_buildable, gc_has_reads)} :
          /\ gc_trace' = done.trace
          /\ gc_output_exists' = done.output
          /\ gc_outcome' = done.outcome
    /\ gc_pc' = "done"
    /\ UNCHANGED <<gc_ignore_unmapped_contigs, gc_buildable, gc_has_reads>>
    /\ UNCHANGED componentFrame

(***************************************************************************)
(* VARIANT GENERATOR BUILDER                                               *)
(* Paths are modelled after resolution, as positive integers ordered as    *)
(* the paths are; 0 stands for an option that is not set.  Frequencies     *)
(* are in percent (1.0 is 100).  The scanner and reassembler settings of   *)
(* the builder are left out: they read options and cannot fail.            *)
(***************************************************************************)
\* number of distinct paths
NumPaths == 2
\* largest number of paths in source-candidates and in a file of source paths
MaxSourceCandidates == 2
MaxFileSources == 1
\* largest organism-ploidy tried
MaxOrganismPloidy == 4

\* option_collation.cpp:612-645 (the log apart): std::sort, then std::unique
\* from the first adjacent duplicate on
remove_duplicates(paths) ==
    CHOOSE sorted \in SeqsUpTo(Range(paths), Len(paths)) :
        /\ Range(sorted) = Range(paths)
        /\ \A i \in 1..(Len(sorted) - 1) : sorted[i] < sorted[i + 1]

\* option_collation.cpp:860-863
is_cancer_calling(in) == in.caller = "cancer" \/ in.normal_set

\* option_collation.cpp:875-885
get_min_somatic_vaf(in) ==
    IF Min2(in.min_credible, in.min_expected) <= 100
    THEN Max2(in.min_credible, in.min_expected)
    ELSE Min2(in.min_credible, in.min_expected)

\* option_collation.cpp:936-949, with is_polyclone_calling (865-868) and
\* get_min_clone_vaf (896-899); 0.1 is 10 percent, 0.05 is 5 percent
get_assembler_region_generator_frequency_trigger(in) ==
    IF is_cancer_calling(in) THEN get_min_somatic_vaf(in)
    ELSE IF in.caller = "polyclone" THEN in.min_clone
    ELSE IF in.organism_ploidy < 4 THEN 10 ELSE 5

\* option_collation.cpp:1021-1135: the exception thrown, or the builder with
\* the paths of its VCF extractors in the order added; trigger 0 is an unset
\* assembler_active_region_generator_options
make_variant_generator_builder(in) ==
    LET thrown(kind) ==
            [kind |-> kind, extractors |-> <<>>, assemble_all |-> FALSE, trigger |-> 0]
        conflicts(path) == in.output # 0 /\ path = in.output
        \* 1076-1116
        sources_set == in.sources # <<>> \/ in.file.state # "notset"
        source_paths ==
            IF sources_set THEN remove_duplicates(in.sources \o in.file.paths) ELSE <<>>
        refused == {i \in DOMAIN source_paths :
                        source_paths[i] \notin in.exists \/ conflicts(source_paths[i])}
        first_refused == CHOOSE i \in refused : \A j \in refused : i <= j
        \* 1117-1125
        extractors ==
            IF in.regenotype = 0 THEN source_paths ELSE Append(source_paths, in.regenotype)
    IN  IF sources_set /\ in.file.state = "missing"
        THEN thrown("MissingSourceVariantFileOfPaths")
        ELSE IF refused # {}
        THEN IF source_paths[first_refused] \notin in.exists
             THEN thrown("MissingSourceVariantFile")
             ELSE thrown("ConflictingSourceVariantFile")
        ELSE IF in.regenotype # 0 /\ in.regenotype \notin in.exists
        THEN thrown("MissingSourceVariantFile")
        ELSE IF in.regenotype # 0 /\ conflicts(in.regenotype)
        THEN thrown("ConflictingSourceVariantFile")
        \* 1126-1134
        ELSE IF in.assemble_all = "true"
        THEN [kind |-> "builder", extractors |-> extractors, assemble_all |-> TRUE,
              trigger |-> 0]
        ELSE [kind |-> "builder", extractors |-> extractors, assemble_all |-> FALSE,
              trigger |-> get_assembler_region_generator_frequency_trigger(in)]

GeneratorIdle ==
    /\ vg_pc = "idle"
    /\ vg_in = [sources |-> <<>>, file |-> [state |-> "notset", paths |-> <<>>],
                regenotype |-> 0, output |-> 0, exists |-> {}, caller |-> "individual",
                normal_set |-> FALSE, assemble_all |-> "notset", organism_ploidy |-> 2,
                min_credible |-> 1, min_expected |-> 3, min_clone |-> 1]
    /\ vg_out = [kind |-> "none", extractors |-> <<>>, assemble_all |-> FALSE, trigger |-> 0]

\* every setting of the source options, the other options at one setting
SourcesInit ==
    /\ vg_pc = "call"
    /\ vg_in \in [sources : SeqsUpTo(1..NumPaths, MaxSourceCandidates),
                  file : [state : {"notset", "missing"}, paths : {<<>>}]
                            \cup [state : {"present"},
                                  paths : SeqsUpTo(1..NumPaths, MaxFileSources)],
                  regenotype : 0..NumPaths, output : 0..NumPaths,
                  exists : SUBSET (1..NumPaths), caller : {"individual"},
                  normal_set : {FALSE}, assemble_all : {"notset"}, organism_ploidy : {2},
                  min_credible : {1}, min_expected : {3}, min_clone : {1}]
    /\ vg_out = [kind |-> "none", extractors |-> <<>>, assemble_all |-> FALSE, trigger |-> 0]

\* every setting of the options the trigger reads, no source option set;
\* the frequencies take two values below 1.0 and one above
TriggerInit ==
    /\ vg_pc = "call"
    /\ vg_in \in [sources : {<<>>}, file : {[state |-> "notset", paths |-> <<>>]},
                  regenotype : {0}, output : {0}, exists : {{}}, caller : CallerNames,
                  normal_set : BOOLEAN, assemble_all : {"notset", "true", "false"},
                  organism_ploidy : 1..MaxOrganismPloidy,
                  min_credible : {1, 3, 150}, min_expected : {1, 3, 150},
                  min_clone : {1, 3, 150}]
    /\ vg_out = [kind |-> "none", extractors |-> <<>>, assemble_all |-> FALSE, trigger |-> 0]

MakeVariantGeneratorBuilder ==
    /\ vg_pc = "call"
    /\ vg_out' = make_variant_generator_builder(vg_in)
    /\ vg_pc' = IF vg_out'.kind = "builder" THEN "done" ELSE "error"
    /\ UNCHANGED vg_in
    /\ UNCHANGED generatorFrame

(***************************************************************************)
(* CALLER FACTORY                                                          *)
(* Sample names are positive integers ordered as the names are; 0 stands   *)
(* for a sample option that is not set and -1 for a number option that is  *)
(* not set.  Memory is counted in the unit in which "100M" is 100.  The    *)
(* builder is the sequence of the settings it has received; "general" are  *)
(* the settings made for every caller.  The variant and haplotype          *)
(* generator builders, the ploidy map and the likelihood model are taken   *)
(* to be made without error.                                               *)
(***************************************************************************)
\* number of distinct sample names
NumSampleNames == 4
\* largest value of the threads option and of hardware_concurrency()
MaxThreads == 6
MaxHardwareConcurrency == 8
\* parse_footprint("100M")
min_target_memory == 100

\* values of target-working-memory: below, one to two times and more than
\* MaxThreads times min_target_memory
TargetMemories == {0, 150, 100 * MaxThreads + 50}

\* a mutant of check_caller: one sample or none is accepted
check_caller_mutant(caller, samples) == caller = "polyclone" /\ Cardinality(samples) > 1

\* option_collation.cpp:1504-1511: whether BadSampleCount is thrown
check_caller(caller, samples) == caller = "polyclone" /\ Cardinality(samples) # 1

NoTrio == [from |-> "none", mother |-> 0, father |-> 0, child |-> 0]

\* option_collation.cpp:1524-1561: the exception thrown or the Trio made;
\* options.at of an option that is not set throws std::out_of_range; the
\* trio of a pedigree (1519-1522) is not looked into
make_trio(samples, in) ==
    IF in.pedigree = "trio" THEN [kind |-> "trio", trio |-> [NoTrio EXCEPT !.from = "pedigree"]]
    ELSE IF Cardinality(samples) # 3 THEN [kind |-> "BadTrioSampleSet", trio |-> NoTrio]
    ELSE IF in.maternal = 0 \/ in.paternal = 0 THEN [kind |-> "std::out_of_range", trio |-> NoTrio]
    ELSE IF in.maternal = in.paternal THEN [kind |-> "BadTrio", trio |-> NoTrio]
    ELSE LET children == samples \ {in.maternal, in.paternal}
         IN  IF Cardinality(children) # 1 THEN [kind |-> "BadTrioSamples", trio |-> NoTrio]
             ELSE [kind |-> "trio",
                   trio |-> [from |-> "options", mother |-> in.maternal,
                             father |-> in.paternal, child |-> CHOOSE c \in children : TRUE]]

\* option_collation.cpp:231-239; 0 is boost::none
get_num_threads(threads) == IF threads = -1 THEN 1 ELSE threads

\* option_collation.cpp:1674-1687: the footprints the call can give, -1 for
\* none; a division by zero is undefined: the call traps (-2) or gives any
\* quotient
get_target_working_memory(in) ==
    IF ~in.memory_set THEN {-1}
    ELSE LET num_threads ==
                 IF get_num_threads(in.threads) = 0 THEN in.hardware_concurrency
                 ELSE get_num_threads(in.threads)
         IN  IF num_threads = 0
             THEN {-2} \cup {Max2(q, min_target_memory) : q \in 0..in.target_bytes}
             ELSE {Max2(in.target_bytes \div num_threads, min_target_memory)}

\* option_collation.cpp:1694-1793: the outcomes of one call
make_caller_factory(in) ==
    LET caller == get_caller_type([caller |-> in.caller, maternal |-> in.maternal # 0,
                                   paternal |-> in.paternal # 0, normal |-> in.normal_set],
                                  Cardinality(in.samples), in.pedigree)
        outcome(kind, settings, trio, footprint) ==
            [kind |-> kind, caller |-> caller, settings |-> settings, trio |-> trio,
             footprint |-> footprint]
        made == IF caller = "trio" THEN make_trio(in.samples, in)
                ELSE [kind |-> "none", trio |-> NoTrio]
        common == <<"set_caller", "general">>
        specific ==
            CASE caller = "cancer"    -> <<"set_max_somatic_haplotypes">>
              [] caller = "trio"      -> <<"set_trio">>
              [] caller = "polyclone" -> <<"set_max_clones">>
              [] caller = "cell"      -> <<"set_dropout_concentration">>
              [] OTHER                -> <<>>
    IN  IF check_caller(caller, in.samples)
        THEN {outcome("BadSampleCount", <<>>, NoTrio, -1)}
        ELSE IF caller = "trio" /\ made.kind # "trio"
        THEN {outcome(made.kind, common, NoTrio, -1)}
        ELSE {IF memory = -2
              THEN outcome("SIGFPE", common \o specific \o <<"general">>, made.trio, -1)
              ELSE outcome("factory",
                           common \o specific \o <<"general">>
                               \o (IF memory = -1 THEN <<>>
                                   ELSE <<"set_target_memory_footprint">>)
                               \o <<"set_execution_policy">>,
                           made.trio, memory) :
              memory \in get_target_working_memory(in)}

FactoryIdle ==
    /\ cf_pc = "idle"
    /\ cf_in = [caller |-> "individual", samples |-> {}, maternal |-> 0, paternal |-> 0,
                normal_set |-> FALSE, pedigree |-> "none", memory_set |-> FALSE,
                target_bytes |-> 0, threads |-> -1, hardware_concurrency |-> 0]
    /\ cf_out = [kind |-> "none", caller |-> "none", settings |-> <<>>, trio |-> NoTrio,
                 footprint |-> -1]

\* every setting of the caller and of the samples, target-working-memory not set
FactoryCallerInit ==
    /\ cf_pc = "call"
    /\ cf_in \in [caller : CallerNames, samples : SUBSET (1..NumSampleNames),
                  maternal : 0..NumSampleNames, paternal : 0..NumSampleNames,
                  normal_set : BOOLEAN, pedigree : {"none", "trio", "other"},
                  memory_set : {FALSE}, target_bytes : {0}, threads : {-1},
                  hardware_concurrency : {0}]
    /\ cf_out = [kind |-> "none", caller |-> "none", settings |-> <<>>, trio |-> NoTrio,
                 footprint |-> -1]

\* every setting of the memory and thread options, one sample and the
\* individual or the polyclone caller
FactoryMemoryInit ==
    /\ cf_pc = "call"
    /\ cf_in \in [caller : {"individual", "polyclone"}, samples : {{1}}, maternal : {0},
                  paternal : {0}, normal_set : {FALSE}, pedigree : {"none"},
                  memory_set : BOOLEAN, target_bytes : TargetMemories,
                  threads : -1..MaxThreads,
                  hardware_concurrency : 0..MaxHardwareConcurrency]
    /\ cf_out = [kind |-> "none", caller |-> "none", settings |-> <<>>, trio |-> NoTrio,
                 footprint |-> -1]

MakeCallerFactory ==
    /\ cf_pc = "call"
    /\ cf_out' \in make_caller_factory(cf_in)
    /\ cf_pc' = IF cf_out'.kind = "factory" THEN "done" ELSE "error"
    /\ UNCHANGED cf_in
    /\ UNCHANGED factoryFrame

(***************************************************************************)
(* THREADS AND THE REALIGNER'S WORKER POOL                                 *)
(* The threads option is -1 when it is not set; an optional number that    *)
(* holds none is 0 (get_num_threads gives none exactly where it would give *)
(* 0).  BAMRealigner::Config::max_threads is taken to hold the value of    *)
(* get_num_threads.                                                        *)
(***************************************************************************)
\* option_collation.cpp:222-229
is_threading_allowed(threads) == (IF threads = -1 THEN 1 ELSE threads) # 1

\* a mutant of get_pool_size: the number of cores is used as reported
get_pool_size_mutant(max_threads, num_cores) ==
    IF max_threads # 0
    THEN IF max_threads > 1 THEN Min2(max_threads, num_cores) ELSE 0
    ELSE num_cores

\* bam_realigner.cpp:32-44
get_pool_size(max_threads, num_cores) ==
    IF max_threads # 0
    THEN IF max_threads > 1
         THEN IF num_cores > 0 THEN Min2(max_threads, num_cores) ELSE max_threads
         ELSE 0
    ELSE IF num_cores > 0 THEN num_cores ELSE 8

PoolIdle ==
    /\ tp_pc = "idle"
    /\ tp_in = [threads |-> -1, hardware_concurrency |-> 0]
    /\ tp_out = [threading_allowed |-> FALSE, num_threads |-> 0, workers |-> 0]

PoolInit ==
    /\ tp_pc = "call"
    /\ tp_in \in [threads : -1..MaxThreads, hardware_concurrency : 0..MaxHardwareConcurrency]
    /\ tp_out = [threading_allowed |-> FALSE, num_threads |-> 0, workers |-> 0]

\* the options are collated and the BAMRealigner is constructed
\* (bam_realigner.cpp:46-51)
ConstructRealigner ==
    /\ tp_pc = "call"
    /\ tp_out' = [threading_allowed |-> is_threading_allowed(tp_in.threads),
                  num_threads |-> get_num_threads(tp_in.threads),
                  workers |-> get_pool_size(get_num_threads(tp_in.threads),
                                            tp_in.hardware_concurrency)]
    /\ tp_pc' = "done"
    /\ UNCHANGED tp_in
    /\ UNCHANGED poolFrame

(***************************************************************************)
(* CONTIG OUTPUT ORDER                                                     *)
(* Contig names are positive integers ordered as the names are.  The       *)
(* reference is the sequence of its contig names, in index order, and the  *)
(* size of each.                                                           *)
(***************************************************************************)
\* number of contigs of the reference
NumOrderContigs == 3
\* largest contig size
MaxContigSize == 2

ContigOutputOrders ==
    {"lexicographicalAscending", "lexicographicalDescending", "contigSizeAscending",
     "contigSizeDescending", "asInReferenceIndex", "asInReferenceIndexReversed",
     "unspecified"}

\* calling_components.cpp:207-211
index_of(elements, value) ==
    IF value \in Range(elements)
    THEN CHOOSE i \in DOMAIN elements :
             elements[i] = value /\ \A j \in 1..(i - 1) : elements[j] # value
    ELSE Len(elements)

\* a mutant of get_sorter: contigSizeDescending compares as contigSizeAscending
get_sorter_mutant(order, reference, lhs, rhs) ==
    CASE order = "lexicographicalAscending"   -> lhs < rhs
      [] order = "lexicographicalDescending"  -> lhs > rhs
      [] order = "contigSizeAscending"        -> reference.size[lhs] < reference.size[rhs]
      [] order = "contigSizeDescending"       -> reference.size[lhs] < reference.size[rhs]
      [] order = "asInReferenceIndex"         ->
            index_of(reference.names, lhs) < index_of(reference.names, rhs)
      [] order = "asInReferenceIndexReversed" ->
            index_of(reference.names, lhs) < index_of(reference.names, rhs)
      [] order = "unspecified"                -> lhs < rhs

\* calling_components.cpp:213-258: the comparator, applied to lhs and rhs
get_sorter(order, reference, lhs, rhs) ==
    CASE order = "lexicographicalAscending"   -> lhs < rhs
      [] order = "lexicographicalDescending"  -> lhs > rhs
      [] order = "contigSizeAscending"        -> reference.size[lhs] < reference.size[rhs]
      [] order = "contigSizeDescending"       -> reference.size[lhs] > reference.size[rhs]
      [] order = "asInReferenceIndex"         ->
            index_of(reference.names, lhs) < index_of(reference.names, rhs)
      [] order = "asInReferenceIndexReversed" ->
            index_of(reference.names, lhs) < index_of(reference.names, rhs)
      [] order = "unspecified"                -> lhs < rhs

\* calling_components.cpp:260-272: the lists std::sort can leave, which
\* orders contigs that compare equal in any way
get_contigs(regions, reference, order) ==
    {result \in [1..Cardinality(regions) -> regions] :
        /\ \A i, j \in DOMAIN result : i # j => result[i] # result[j]
        /\ \A i, j \in DOMAIN result :
              i < j => ~get_sorter(order, reference, result[j], result[i])}

ContigOrderIdle ==
    /\ co_pc = "idle"
    /\ co_in = [regions |-> {}, reference |-> [names |-> <<>>, size |-> <<>>],
                order |-> "unspecified"]
    /\ co_out = <<>>

\* regions holds the contigs of the reference that have search regions
ContigOrderInit ==
    /\ co_pc = "call"
    /\ co_in \in [regions : SUBSET (1..NumOrderContigs),
                  reference : [names : Orderings([i \in 1..NumOrderContigs |-> i]),
                               size : [1..NumOrderContigs -> 1..MaxContigSize]],
                  order : ContigOutputOrders]
    /\ co_out = <<>>

GetContigs ==
    /\ co_pc = "call"
    /\ co_out' \in get_contigs(co_in.regions, co_in.reference, co_in.order)
    /\ co_pc' = "done"
    /\ UNCHANGED co_in
    /\ UNCHANGED contigOrderFrame

(***************************************************************************)
(* HTSLIB SAM FACADE                                                       *)
(* A record is what htslib hands over: its RG tag (0 when it has none, a   *)
(* number above NumReadGroups for a group the header does not name), its   *)
(* position, its CIGAR, l_qseq and whether its first quality is 0xff.      *)
(* Bases and qualities are modelled by their indices in the record.  Read  *)
(* group g belongs to sample g.                                            *)
(***************************************************************************)
\* number of read groups in the header
NumReadGroups == 2
\* largest number of records in the region fetched
MaxFetched == 2
\* largest record position, CIGAR length, operation size and l_qseq
MaxRecordPos == 1
MaxCigarOps == 2
MaxOpSize == 2
MaxSeqLen == 3

CigarFlags == {"M", "I", "D", "S", "H"}
CigarStrings == SeqsUpTo([flag : CigarFlags, size : 1..MaxOpSize], MaxCigarOps)

\* the number of reference positions the operations advance over; octopus
\* counts a soft clip
RECURSIVE reference_size(_)
reference_size(cigar) ==
    IF cigar = <<>> THEN 0
    ELSE (IF cigar[1].flag \in {"M", "D", "S"} THEN cigar[1].size ELSE 0)
            + reference_size(Tail(cigar))

\* the begin of the read with its leading soft clip
soft_clipped_read_begin(cigar, hard_clipped_begin) ==
    IF cigar # <<>> /\ cigar[1].flag = "S"
    THEN hard_clipped_begin - cigar[1].size
    ELSE hard_clipped_begin

NoRead == [begin |-> 0, end |-> 0, sequence |-> <<>>, qualities |-> <<>>, cigar |-> <<>>]

\* htslib_sam_facade.cpp:461-530: the outcomes of HtslibIterator::operator*;
\* erasing more elements than the sequence has is undefined: the call
\* crashes or leaves any suffix
dereference(b) ==
    LET qualities == [i \in 1..b.l_qseq |-> i]
        sequence == [i \in 1..b.l_qseq |-> i]
        read_begin_tmp == soft_clipped_read_begin(b.cigar, b.pos)
        overhang_size == -read_begin_tmp
        soft_clip_size == b.cigar[1].size
        trimmed_cigar ==
            IF overhang_size = soft_clip_size THEN Tail(b.cigar)
            ELSE [b.cigar EXCEPT ![1] = [flag |-> "S", size |-> soft_clip_size - overhang_size]]
        read(begin, s, q, cigar) ==
            [kind |-> "read",
             read |-> [begin |-> begin, end |-> begin + reference_size(cigar),
                       sequence |-> s, qualities |-> q, cigar |-> cigar]]
    IN  IF qualities = <<>> \/ b.qual_ff \/ b.cigar = <<>>
        THEN {[kind |-> "InvalidBamRecord", read |-> NoRead]}
        ELSE IF read_begin_tmp >= 0
        THEN {read(read_begin_tmp, sequence, qualities, b.cigar)}
        ELSE IF overhang_size <= b.l_qseq
        THEN {read(0, SubSeq(sequence, overhang_size + 1, b.l_qseq),
                   SubSeq(qualities, overhang_size + 1, b.l_qseq), trimmed_cigar)}
        ELSE {[kind |-> "crash", read |-> NoRead]}
                \cup {read(0, SubSeq(sequence, k + 1, b.l_qseq),
                           SubSeq(qualities, k + 1, b.l_qseq), trimmed_cigar) :
                      k \in 0..b.l_qseq}

\* htslib_sam_facade.cpp:174-223, with get_read_group (352-361): the loop of
\* fetch_reads from record i on; sample 0 is the overload for all samples.
\* InvalidBamRecord is caught and the record passed over; sample_map_.at of
\* a group the header does not name throws std::out_of_range
RECURSIVE hts_fetch_reads(_, _, _)
hts_fetch_reads(in, i, result) ==
    IF i > Len(in.records) THEN {[kind |-> "reads", reads |-> result]}
    ELSE LET b == in.records[i]
         IN  IF b.rg = 0 THEN hts_fetch_reads(in, i + 1, result)
             ELSE IF b.rg > NumReadGroups
             THEN {[kind |-> "std::out_of_range", reads |-> <<>>]}
             ELSE IF in.sample # 0 /\ b.rg # in.sample
             THEN hts_fetch_reads(in, i + 1, result)
             ELSE UNION {IF d.kind = "read"
                         THEN hts_fetch_reads(in, i + 1,
                                  Append(result, [sample |-> b.rg, record |-> i,
                                                  read |-> d.read]))
                         ELSE IF d.kind = "InvalidBamRecord"
                         THEN hts_fetch_reads(in, i + 1, result)
                         ELSE {[kind |-> "crash", reads |-> <<>>]} :
                         d \in dereference(b)}

SamIdle ==
    /\ hs_pc = "idle"
    /\ hs_in = [records |-> <<>>, sample |-> 0]
    /\ hs_out = [kind |-> "none", reads |-> <<>>]

\* records with every RG tag, each a good record or one with no CIGAR
SamFetchInit ==
    /\ hs_pc = "call"
    /\ hs_in \in [records : SeqsUpTo([rg : 0..(NumReadGroups + 1), pos : {MaxRecordPos},
                                      cigar : {<<>>, <<[flag |-> "M", size |-> 1]>>},
                                      l_qseq : {1}, qual_ff : {FALSE}], MaxFetched),
                  sample : 0..NumReadGroups]
    /\ hs_out = [kind |-> "none", reads |-> <<>>]

\* one record of a known read group, of every shape
SamReadInit ==
    /\ hs_pc = "call"
    /\ hs_in \in [records : [1..1 -> [rg : {1}, pos : 0..MaxRecordPos, cigar : CigarStrings,
                                     l_qseq : 0..MaxSeqLen, qual_ff : BOOLEAN]],
                  sample : 0..1]
    /\ hs_out = [kind |-> "none", reads |-> <<>>]

FetchReads ==
    /\ hs_pc = "call"
    /\ hs_out' \in hts_fetch_reads(hs_in, 1, <<>>)
    /\ hs_pc' = IF hs_out'.kind = "reads" THEN "done" ELSE "error"
    /\ UNCHANGED hs_in
    /\ UNCHANGED samFrame

\* htslib_sam_facade.cpp:143-163: the loop of count_reads from record i on;
\* sample 0 is the overload for all samples.  No record is dereferenced;
\* the InvalidBamRecord of get_read_group is not caught here
RECURSIVE hts_count_reads(_, _, _)
hts_count_reads(in, i, result) ==
    IF i > Len(in.records) THEN [kind |-> "count", reads |-> <<>>, count |-> result]
    ELSE LET b == in.records[i]
         IN  IF in.sample = 0 THEN hts_count_reads(in, i + 1, result + 1)
             ELSE IF b.rg = 0
             THEN [kind |-> "InvalidBamRecord", reads |-> <<>>, count |-> 0]
             ELSE IF b.rg > NumReadGroups
             THEN [kind |-> "std::out_of_range", reads |-> <<>>, count |-> 0]
             ELSE IF b.rg = in.sample THEN hts_count_reads(in, i + 1, result + 1)
             ELSE [kind |-> "count", reads |-> <<>>, count |-> result]

CountReads ==
    /\ hs_pc = "call"
    /\ hs_out' = hts_count_reads(hs_in, 1, 0)
    /\ hs_pc' = IF hs_out'.kind = "count" THEN "done" ELSE "error"
    /\ UNCHANGED hs_in
    /\ UNCHANGED samFrame

(***************************************************************************)
(* HAPLOTYPE                                                               *)
(* An allele is modelled by its region, on one contig.  An allele passed   *)
(* as an rvalue has been moved from when its region is read again (lines   *)
(* 113 and 133); its contig name is then unspecified and get_encompassing  *)
(* raises when it differs from the haplotype's.                            *)
(***************************************************************************)
\* largest position of the haplotype's contig
MaxHapPos == 3
\* largest number of push_back and push_front calls
MaxPushes == 3

\* the regions of the contig
HapRegions == {r \in [contig : {1}, begin : 0..MaxHapPos, end : 0..MaxHapPos] : r.begin <= r.end}

\* lhs begins at or after the end of rhs, and is not rhs
is_after(lhs, rhs) == lhs # rhs /\ rhs.end <= lhs.begin

are_adjacent(lhs, rhs) == lhs.end = rhs.begin \/ rhs.end = lhs.begin

get_encompassing(lhs, rhs) == Region(lhs.contig, Min2(lhs.begin, rhs.begin), Max2(lhs.end, rhs.end))

\* a mutant of push_back: no intervening reference allele is added
push_back_mutant(h, allele, contig_kept) ==
    IF h.explicit_alleles # <<>> /\ ~is_after(allele, h.explicit_alleles[Len(h.explicit_alleles)])
    THEN [h EXCEPT !.raised = TRUE]
    ELSE LET pushed == Append(h.explicit_alleles, allele)
         IN  IF contig_kept
             THEN [h EXCEPT !.explicit_alleles = pushed,
                            !.region = get_encompassing(h.region, allele),
                            !.cached_sequence = FALSE]
             ELSE [h EXCEPT !.explicit_alleles = pushed, !.raised = TRUE]

\* haplotype.hpp:98-116
push_back(h, allele, contig_kept) ==
    LET back == h.explicit_alleles[Len(h.explicit_alleles)]
    IN  IF h.explicit_alleles # <<>> /\ ~is_after(allele, back)
        THEN [h EXCEPT !.raised = TRUE]
        ELSE LET filled ==
                     IF h.explicit_alleles # <<>> /\ ~are_adjacent(back, allele)
                     THEN Append(h.explicit_alleles, intervening_region(back, allele))
                     ELSE h.explicit_alleles
                 pushed == Append(filled, allele)
             IN  IF contig_kept
                 THEN [h EXCEPT !.explicit_alleles = pushed,
                                !.region = get_encompassing(h.region, allele),
                                !.cached_sequence = FALSE]
                 ELSE [h EXCEPT !.explicit_alleles = pushed, !.raised = TRUE]

\* a mutant of push_front: the allele is put in before the order is tested
push_front_mutant(h, allele, contig_kept) ==
    IF h.explicit_alleles # <<>> /\ ~is_after(h.explicit_alleles[1], allele)
    THEN [h EXCEPT !.explicit_alleles = <<allele>> \o @, !.raised = TRUE]
    ELSE [h EXCEPT !.explicit_alleles = <<allele>> \o @,
                   !.region = get_encompassing(h.region, allele),
                   !.cached_sequence = FALSE]

\* haplotype.hpp:118-136
push_front(h, allele, contig_kept) ==
    LET front == h.explicit_alleles[1]
    IN  IF h.explicit_alleles # <<>> /\ ~is_after(front, allele)
        THEN [h EXCEPT !.raised = TRUE]
        ELSE LET filled ==
                     IF h.explicit_alleles # <<>> /\ ~are_adjacent(allele, front)
                     THEN <<intervening_region(allele, front)>> \o h.explicit_alleles
                     ELSE h.explicit_alleles
                 pushed == <<allele>> \o filled
             IN  IF contig_kept
                 THEN [h EXCEPT !.explicit_alleles = pushed,
                                !.region = get_encompassing(h.region, allele),
                                !.cached_sequence = FALSE]
                 ELSE [h EXCEPT !.explicit_alleles = pushed, !.raised = TRUE]

\* the allele of the last push and the operation it was given to, kept for
\* the statements about a push; cached_sequence says that cached_sequence_
\* holds the sequence of the haplotype
NoPush == [op |-> "none", allele |-> Region(1, 0, 0)]

HaplotypeIdle ==
    /\ hp_pc = -1
    /\ hp = [region |-> Region(1, 0, 0), explicit_alleles |-> <<>>, raised |-> FALSE,
             cached_sequence |-> FALSE, offered |-> NoPush]

\* Haplotype(reference, region): no explicit allele
HaplotypeInit ==
    /\ hp_pc = 0
    /\ hp \in [region : HapRegions, explicit_alleles : {<<>>}, raised : {FALSE},
                cached_sequence : {FALSE}, offered : {NoPush}]

PushBack ==
    /\ hp_pc \in 0..(MaxPushes - 1)
    /\ ~hp.raised
    /\ \E allele \in HapRegions, contig_kept \in BOOLEAN :
          hp' = [push_back(hp, allele, contig_kept) EXCEPT
                    !.offered = [op |-> "push_back", allele |-> allele]]
    /\ hp_pc' = hp_pc + 1
    /\ UNCHANGED haplotypeFrame

PushFront ==
    /\ hp_pc \in 0..(MaxPushes - 1)
    /\ ~hp.raised
    /\ \E allele \in HapRegions, contig_kept \in BOOLEAN :
          hp' = [push_front(hp, allele, contig_kept) EXCEPT
                    !.offered = [op |-> "push_front", allele |-> allele]]
    /\ hp_pc' = hp_pc + 1
    /\ UNCHANGED haplotypeFrame

\* get_sequence() of a haplotype whose cached sequence is not good: the
\* sequence is built and kept in cached_sequence_
GetSequence ==
    /\ hp_pc >= 0
    /\ ~hp.raised
    /\ ~hp.cached_sequence
    /\ hp' = [hp EXCEPT !.cached_sequence = TRUE]
    /\ UNCHANGED hp_pc
    /\ UNCHANGED haplotypeFrame

(***************************************************************************)
(* REGION RANGE                                                            *)
(* The contigs of the reference are 1..NumRangeContigs in index order,     *)
(* each of MaxRangePos bases.                                              *)
(***************************************************************************)
\* number of contigs of the reference and the size of each
NumRangeContigs == 3
MaxRangePos == 2

\* option_collation.cpp:434-460: the regions returned, or BadRegionRange
make_region_range(lhs, rhs) ==
    LET reference_contigs == [i \in 1..NumRangeContigs |-> i]
        lhs_itr == CHOOSE i \in DOMAIN reference_contigs : reference_contigs[i] = lhs.contig
        \* std::find from std::next(lhs_itr) on
        found == {i \in (lhs_itr + 1)..Len(reference_contigs) :
                      reference_contigs[i] = rhs.contig}
        rhs_itr == CHOOSE i \in found : \A j \in found : i <= j
        thrown == [kind |-> "BadRegionRange", regions |-> <<>>]
    IN  IF is_same_contig(lhs, rhs)
        THEN IF lhs = rhs \/ (begins_before(lhs, rhs) /\ ends_before(lhs, rhs))
             THEN [kind |-> "regions", regions |-> <<closed_region(lhs, rhs)>>]
             ELSE thrown
        ELSE IF found # {}
             THEN [kind |-> "regions",
                   regions |-> <<Region(lhs.contig, lhs.begin, MaxRangePos)>>
                                  \o [k \in 1..(rhs_itr - lhs_itr - 1) |->
                                         Region(reference_contigs[lhs_itr + k], 0, MaxRangePos)]
                                  \o <<Region(rhs.contig, 0, rhs.end)>>]
             ELSE thrown

RangeIdle ==
    /\ rr_pc = "idle"
    /\ rr_in = [lhs |-> Region(1, 0, 0), rhs |-> Region(1, 0, 0)]
    /\ rr_out = [kind |-> "none", regions |-> <<>>]

\* two regions of the reference, as io::parse_region gives them
RangeInit ==
    /\ rr_pc = "call"
    /\ rr_in \in {in \in [lhs : [contig : 1..NumRangeContigs, begin : 0..MaxRangePos,
                                 end : 0..MaxRangePos],
                          rhs : [contig : 1..NumRangeContigs, begin : 0..MaxRangePos,
                                 end : 0..MaxRangePos]] :
                     in.lhs.begin <= in.lhs.end /\ in.rhs.begin <= in.rhs.end}
    /\ rr_out = [kind |-> "none", regions |-> <<>>]

MakeRegionRange ==
    /\ rr_pc = "call"
    /\ rr_out' = make_region_range(rr_in.lhs, rr_in.rhs)
    /\ rr_pc' = IF rr_out'.kind = "regions" THEN "done" ELSE "error"
    /\ UNCHANGED rr_in
    /\ UNCHANGED rangeFrame

(***************************************************************************)
(* PROGRESS METER                                                          *)
(* regions_ and the completed regions of every contig are kept as one      *)
(* sequence of regions in the order of GenomicRegion; positions run from 0 *)
(* to MaxMeterPos on each of the contigs MeterContigs.                     *)
(***************************************************************************)
MaxMeterPos == 3
MeterContigs == {1, 2}
MeterThreads == {1, 2, 3}

MeterRegions ==
    {r \in [contig : MeterContigs, begin : 0..MaxMeterPos, end : 0..MaxMeterPos] :
        r.begin <= r.end}

RECURSIVE sum_region_sizes(_)
sum_region_sizes(regions) ==
    IF regions = <<>> THEN 0
    ELSE region_size(Head(regions)) + sum_region_sizes(Tail(regions))

merge_one_mutant(interactor, contig_region) ==
    LET left == IF begins_before(contig_region, interactor)
                THEN interactor.begin - contig_region.begin ELSE 0
        begun == IF begins_before(interactor, contig_region)
                 THEN get_encompassing(interactor, contig_region) ELSE contig_region
    IN  [result |-> left,
         new_region |-> IF ends_before(begun, interactor)
                        THEN get_encompassing(interactor, begun) ELSE begun]

\* progress_meter.cpp:326-343: one completed region overlaps the new one
\* and does not contain it
merge_one(interactor, contig_region) ==
    LET \* left_overhang_size(new_region, interactor)
        left == IF begins_before(contig_region, interactor)
                THEN interactor.begin - contig_region.begin ELSE 0
        begun == IF begins_before(interactor, contig_region)
                 THEN get_encompassing(interactor, contig_region) ELSE contig_region
        \* right_overhang_size(new_region, interactor)
        right == IF ends_before(interactor, begun)
                 THEN begun.end - interactor.end ELSE 0
    IN  [result |-> left + right,
         new_region |-> IF ~ends_before(interactor, begun) /\ ends_before(begun, interactor)
                        THEN get_encompassing(interactor, begun) ELSE begun]

\* progress_meter.cpp:313-364: the completed regions after the merge and the
\* number of positions the region adds
merge(completed_regions, region) ==
    LET overlapped == overlap_range(completed_regions, region)
        others == SelectSeq(completed_regions, LAMBDA x : ~overlaps(x, region))
        front == overlapped[1]
        back == overlapped[Len(overlapped)]
        one == merge_one(front, region)
        begun == IF begins_before(front, region)
                 THEN get_encompassing(front, region) ELSE region
        ended == IF ends_before(begun, back)
                 THEN get_encompassing(begun, back) ELSE begun
        middle == SubSeq(overlapped, 2, Len(overlapped) - 1)
    IN  IF overlapped = <<>>
        THEN [completed |-> SortedInsert(completed_regions, region, TRUE),
              result |-> region_size(region)]
        ELSE IF Len(overlapped) = 1
        THEN IF contains(front, region)
             THEN [completed |-> completed_regions, result |-> 0]
             ELSE [completed |-> SortedInsert(others, one.new_region, TRUE),
                   result |-> one.result]
        ELSE [completed |-> SortedInsert(others, ended, TRUE),
              result |-> region_size(region) - overlap_size(front, region)
                            - overlap_size(back, begun) - sum_region_sizes(middle)]

\* progress_meter.cpp:292-300: the meter after log_completed(region)
log_completed(meter, region) ==
    LET merged == merge(meter.completed_regions, region)
    IN  [meter EXCEPT
            !.completed_regions = merged.completed,
            !.num_bp_completed = @ + merged.result,
            !.new_bp_processed = merged.result,
            !.fresh = Cardinality(Positions(region) \ meter.logged),
            !.logged = @ \cup Positions(region),
            !.inside = @ /\ \E s \in Range(meter.regions) : contains(s, region)]

\* progress_meter.cpp:64-82: a meter constructed over the search regions
NewMeter(regions) ==
    [regions |-> regions, completed_regions |-> <<>>,
     num_bp_to_search |-> sum_region_sizes(regions), num_bp_completed |-> 0,
     done |-> FALSE, mutex |-> 0,
     \* the header written by start(); the "100%" lines written since the
     \* last reset and in the interval the last reset closed; the writer
     started |-> FALSE, final_lines |-> 0, closed_lines |-> 0,
     stop_called |-> FALSE, destructor_wrote |-> FALSE,
     \* the positions logged since the last reset, the result of the last
     \* merge and the number of positions its region had not yet logged;
     \* whether every region logged lay inside one search region
     logged |-> {}, new_bp_processed |-> 0, fresh |-> 0, inside |-> TRUE]

MeterIdle ==
    /\ pm_pc = "idle"
    /\ pm = NewMeter(<<>>)
    /\ pm_thr = <<>>

\* two contigs searched whole, or one contig with a gap
LogInit ==
    /\ pm_pc = "live"
    /\ pm \in {NewMeter(<<Region(1, 0, MaxMeterPos), Region(2, 0, MaxMeterPos)>>),
               NewMeter(<<Region(1, 0, 1), Region(1, 2, MaxMeterPos)>>)}
    /\ pm_thr = <<>>

\* no search region, one, or two with a gap
LifeInit ==
    /\ pm_pc = "live"
    /\ pm \in {NewMeter(<<>>), NewMeter(<<Region(1, 0, MaxMeterPos)>>),
               NewMeter(<<Region(1, 0, 1), Region(1, 2, MaxMeterPos)>>)}
    /\ pm_thr = <<>>

\* worker threads that each have one region of contig 1 to log
ThreadInit ==
    /\ pm_pc = "live"
    /\ pm = NewMeter(<<Region(1, 0, MaxMeterPos)>>)
    /\ pm_thr \in [MeterThreads -> [pc : {"call"}, new_bp_processed : {0},
                                    region : {r \in MeterRegions : r.contig = 1}]]

\* log_completed(const GenomicRegion&), for a region of a searched contig
LogCompletedRegion ==
    /\ pm_pc = "live"
    /\ \E region \in MeterRegions :
          /\ \E s \in Range(pm.regions) : s.contig = region.contig
          /\ pm' = log_completed(pm, region)
    /\ UNCHANGED <<pm_pc, pm_thr>>
    /\ UNCHANGED meterFrame

\* progress_meter.cpp:302-309: log_completed(const ContigName&)
LogCompletedContig ==
    /\ pm_pc = "live"
    /\ \E contig \in {s.contig : s \in Range(pm.regions)} :
          LET contig_regions == SelectSeq(pm.regions, LAMBDA s : s.contig = contig)
              contig_region == get_encompassing(contig_regions[1],
                                                contig_regions[Len(contig_regions)])
          IN  pm' = [log_completed(pm, contig_region) EXCEPT !.inside = pm.inside]
    /\ UNCHANGED <<pm_pc, pm_thr>>
    /\ UNCHANGED meterFrame

\* progress_meter.cpp:241-249
Start ==
    /\ pm_pc = "live"
    /\ ~pm.started
    /\ pm' = [pm EXCEPT !.started = TRUE]
    /\ UNCHANGED <<pm_pc, pm_thr>>
    /\ UNCHANGED meterFrame

Stop_mutant ==
    /\ pm_pc = "live"
    /\ pm' = [pm EXCEPT
                 !.final_lines = IF pm.regions # <<>> THEN @ + 1 ELSE @,
                 !.done = TRUE,
                 !.stop_called = TRUE]
    /\ UNCHANGED <<pm_pc, pm_thr>>
    /\ UNCHANGED meterFrame

\* progress_meter.cpp:261-276
Stop ==
    /\ pm_pc = "live"
    /\ pm' = [pm EXCEPT
                 !.final_lines = IF ~pm.done /\ pm.regions # <<>> THEN @ + 1 ELSE @,
                 !.done = TRUE,
                 !.stop_called = TRUE]
    /\ UNCHANGED <<pm_pc, pm_thr>>
    /\ UNCHANGED meterFrame

\* progress_meter.cpp:278-290: stop() when not done, then everything cleared
Reset ==
    /\ pm_pc = "live"
    /\ pm' = [NewMeter(pm.regions) EXCEPT
                 !.started = pm.started,
                 !.stop_called = pm.stop_called,
                 !.closed_lines = IF ~pm.done /\ pm.regions # <<>>
                                  THEN pm.final_lines + 1 ELSE pm.final_lines]
    /\ UNCHANGED <<pm_pc, pm_thr>>
    /\ UNCHANGED meterFrame

\* progress_meter.cpp:217-231: ~ProgressMeter
Destroy ==
    /\ pm_pc = "live"
    /\ pm_pc' = "destroyed"
    /\ LET writes == ~pm.done /\ pm.regions # <<>> /\ pm.num_bp_completed > 0
       IN  pm' = [pm EXCEPT !.final_lines = IF writes THEN @ + 1 ELSE @,
                            !.destructor_wrote = writes]
    /\ UNCHANGED pm_thr
    /\ UNCHANGED meterFrame

AcquireLock_mutant ==
    /\ pm_pc = "live"
    /\ \E t \in MeterThreads :
          /\ pm_thr[t].pc = "call"
          /\ pm' = [pm EXCEPT !.mutex = t]
          /\ pm_thr' = [pm_thr EXCEPT ![t].pc = "locked"]
    /\ UNCHANGED pm_pc
    /\ UNCHANGED meterFrame

\* progress_meter.cpp:294: the lock_guard of a thread takes the mutex
AcquireLock ==
    /\ pm_pc = "live"
    /\ pm.mutex = 0
    /\ \E t \in MeterThreads :
          /\ pm_thr[t].pc = "call"
          /\ pm' = [pm EXCEPT !.mutex = t]
          /\ pm_thr' = [pm_thr EXCEPT ![t].pc = "locked"]
    /\ UNCHANGED pm_pc
    /\ UNCHANGED meterFrame

\* progress_meter.cpp:295: merge(region), by a thread past its lock_guard
MergeLocked ==
    /\ pm_pc = "live"
    /\ \E t \in MeterThreads :
          /\ pm_thr[t].pc = "locked"
          /\ LET merged == merge(pm.completed_regions, pm_thr[t].region)
             IN  /\ pm' = [pm EXCEPT !.completed_regions = merged.completed,
                                     !.logged = @ \cup Positions(pm_thr[t].region)]
                 /\ pm_thr' = [pm_thr EXCEPT ![t].pc = "merged",
                                             ![t].new_bp_processed = merged.result]
    /\ UNCHANGED pm_pc
    /\ UNCHANGED meterFrame

\* progress_meter.cpp:297-300: the count is raised and the lock_guard
\* releases the mutex when the call returns
AddAndRelease ==
    /\ pm_pc = "live"
    /\ \E t \in MeterThreads :
          /\ pm_thr[t].pc = "merged"
          /\ pm' = [pm EXCEPT
                       !.num_bp_completed = @ + pm_thr[t].new_bp_processed,
                       !.mutex = IF @ = t THEN 0 ELSE @]
          /\ pm_thr' = [pm_thr EXCEPT ![t].pc = "returned"]
    /\ UNCHANGED pm_pc
    /\ UNCHANGED meterFrame

(***************************************************************************)
(* WORKING DIRECTORY                                                       *)
(* A path is [home, name]: home says whether it lies under the user's home *)
(* directory.  An option value is [tilde, name]; tilde says it begins with *)
(* "~".  The file system says of every path what is there.                 *)
(***************************************************************************)
\* number of path names
NumDirNames == 2

DirPaths == [home : BOOLEAN, name : 1..NumDirNames]
CurrentPath == [home |-> FALSE, name |-> 0]

\* a leading ~ is replaced by the home directory
expand_user_path(path) == [home |-> path.tilde, name |-> path.name]

\* option_collation.cpp:120-130: the path returned or InvalidWorkingDirectory
get_working_directory(in) ==
    LET result == expand_user_path(in.working_directory)
        exists == in.fs[result] # "missing"
        is_directory == in.fs[result] = "directory"
    IN  IF in.is_set
        THEN IF ~exists /\ ~is_directory
             THEN [kind |-> "InvalidWorkingDirectory", path |-> result]
             ELSE [kind |-> "path", path |-> result]
        ELSE [kind |-> "path", path |-> CurrentPath]

WorkingDirIdle ==
    /\ wd_pc = "idle"
    /\ wd_in = [is_set |-> FALSE, working_directory |-> [tilde |-> FALSE, name |-> 1],
                fs |-> [p \in DirPaths |-> "missing"]]
    /\ wd_out = [kind |-> "none", path |-> CurrentPath]

\* the option unset, or set to any path, over every file system
WorkingDirInit ==
    /\ wd_pc = "call"
    /\ wd_in \in {in \in [is_set : BOOLEAN,
                          working_directory : [tilde : BOOLEAN, name : 1..NumDirNames],
                          fs : [DirPaths -> {"missing", "file", "directory"}]] :
                     ~in.is_set => in.working_directory = [tilde |-> FALSE, name |-> 1]}
    /\ wd_out = [kind |-> "none", path |-> CurrentPath]

GetWorkingDirectory ==
    /\ wd_pc = "call"
    /\ wd_out' = get_working_directory(wd_in)
    /\ wd_pc' = IF wd_out'.kind = "path" THEN "done" ELSE "error"
    /\ UNCHANGED wd_in
    /\ UNCHANGED workingDirFrame

(***************************************************************************)
(* SPECIFICATIONS                                                          *)
(***************************************************************************)
vars ==
    <<callerVars,
      ploidyVars,
      regionVars,
      realignVars,
      tempDirVars,
      componentVars,
      generatorVars,
      factoryVars,
      poolVars,
      contigOrderVars,
      samVars,
      haplotypeVars,
      rangeVars,
      meterVars,
      workingDirVars>>

InitCaller ==
    /\ CallerInit
    /\ PloidyIdle
    /\ RegionsIdle
    /\ RealignIdle
    /\ TempDirIdle
    /\ ComponentsIdle
    /\ GeneratorIdle
    /\ FactoryIdle
    /\ PoolIdle
    /\ ContigOrderIdle
    /\ SamIdle
    /\ HaplotypeIdle
    /\ RangeIdle
    /\ MeterIdle
    /\ WorkingDirIdle
NextCaller == GetCallerType
SpecCaller == InitCaller /\ [][NextCaller]_vars

InitPloidy ==
    /\ PloidyInit
    /\ CallerIdle
    /\ RegionsIdle
    /\ RealignIdle
    /\ TempDirIdle
    /\ ComponentsIdle
    /\ GeneratorIdle
    /\ FactoryIdle
    /\ PoolIdle
    /\ ContigOrderIdle
    /\ SamIdle
    /\ HaplotypeIdle
    /\ RangeIdle
    /\ MeterIdle
    /\ WorkingDirIdle
NextPloidy == GetPloidyMap
SpecPloidy == InitPloidy /\ [][NextPloidy]_vars

InitExtract ==
    /\ ExtractInit
    /\ CallerIdle
    /\ PloidyIdle
    /\ RealignIdle
    /\ TempDirIdle
    /\ ComponentsIdle
    /\ GeneratorIdle
    /\ FactoryIdle
    /\ PoolIdle
    /\ ContigOrderIdle
    /\ SamIdle
    /\ HaplotypeIdle
    /\ RangeIdle
    /\ MeterIdle
    /\ WorkingDirIdle
NextExtract == ExtractSearchRegions
SpecExtract == InitExtract /\ [][NextExtract]_vars

InitSearch ==
    /\ SearchInit
    /\ CallerIdle
    /\ PloidyIdle
    /\ RealignIdle
    /\ TempDirIdle
    /\ ComponentsIdle
    /\ GeneratorIdle
    /\ FactoryIdle
    /\ PoolIdle
    /\ ContigOrderIdle
    /\ SamIdle
    /\ HaplotypeIdle
    /\ RangeIdle
    /\ MeterIdle
    /\ WorkingDirIdle
NextSearch == GetSearchRegions
SpecSearch == InitSearch /\ [][NextSearch]_vars

InitRealign ==
    /\ RealignInit
    /\ CallerIdle
    /\ PloidyIdle
    /\ RegionsIdle
    /\ TempDirIdle
    /\ ComponentsIdle
    /\ GeneratorIdle
    /\ FactoryIdle
    /\ PoolIdle
    /\ ContigOrderIdle
    /\ SamIdle
    /\ HaplotypeIdle
    /\ RangeIdle
    /\ MeterIdle
    /\ WorkingDirIdle
NextRealign == RealignBatch \/ RealignReturn
SpecRealign == InitRealign /\ [][NextRealign]_vars

InitTempDir ==
    /\ TempDirInit
    /\ CallerIdle
    /\ PloidyIdle
    /\ RegionsIdle
    /\ RealignIdle
    /\ ComponentsIdle
    /\ GeneratorIdle
    /\ FactoryIdle
    /\ PoolIdle
    /\ ContigOrderIdle
    /\ SamIdle
    /\ HaplotypeIdle
    /\ RangeIdle
    /\ MeterIdle
    /\ WorkingDirIdle
NextTempDir == CreateTempFileDirectory
SpecTempDir == InitTempDir /\ [][NextTempDir]_vars

InitComponents ==
    /\ ComponentsInit
    /\ CallerIdle
    /\ PloidyIdle
    /\ RegionsIdle
    /\ RealignIdle
    /\ TempDirIdle
    /\ GeneratorIdle
    /\ FactoryIdle
    /\ PoolIdle
    /\ ContigOrderIdle
    /\ SamIdle
    /\ HaplotypeIdle
    /\ RangeIdle
    /\ MeterIdle
    /\ WorkingDirIdle
NextComponents == CollateGenomeCallingComponents
SpecComponents == InitComponents /\ [][NextComponents]_vars

InitSources ==
    /\ SourcesInit
    /\ CallerIdle
    /\ PloidyIdle
    /\ RegionsIdle
    /\ RealignIdle
    /\ TempDirIdle
    /\ ComponentsIdle
    /\ FactoryIdle
    /\ PoolIdle
    /\ ContigOrderIdle
    /\ SamIdle
    /\ HaplotypeIdle
    /\ RangeIdle
    /\ MeterIdle
    /\ WorkingDirIdle
NextSources == MakeVariantGeneratorBuilder
SpecSources == InitSources /\ [][NextSources]_vars

InitTrigger ==
    /\ TriggerInit
    /\ CallerIdle
    /\ PloidyIdle
    /\ RegionsIdle
    /\ RealignIdle
    /\ TempDirIdle
    /\ ComponentsIdle
    /\ FactoryIdle
    /\ PoolIdle
    /\ ContigOrderIdle
    /\ SamIdle
    /\ HaplotypeIdle
    /\ RangeIdle
    /\ MeterIdle
    /\ WorkingDirIdle
NextTrigger == MakeVariantGeneratorBuilder
SpecTrigger == InitTrigger /\ [][NextTrigger]_vars

InitFactoryCaller ==
    /\ FactoryCallerInit
    /\ CallerIdle
    /\ PloidyIdle
    /\ RegionsIdle
    /\ RealignIdle
    /\ TempDirIdle
    /\ ComponentsIdle
    /\ GeneratorIdle
    /\ PoolIdle
    /\ ContigOrderIdle
    /\ SamIdle
    /\ HaplotypeIdle
    /\ RangeIdle
    /\ MeterIdle
    /\ WorkingDirIdle
NextFactoryCaller == MakeCallerFactory
SpecFactoryCaller == InitFactoryCaller /\ [][NextFactoryCaller]_vars

InitFactoryMemory ==
    /\ FactoryMemoryInit
    /\ CallerIdle
    /\ PloidyIdle
    /\ RegionsIdle
    /\ RealignIdle
    /\ TempDirIdle
    /\ ComponentsIdle
    /\ GeneratorIdle
    /\ PoolIdle
    /\ ContigOrderIdle
    /\ SamIdle
    /\ HaplotypeIdle
    /\ RangeIdle
    /\ MeterIdle
    /\ WorkingDirIdle
NextFactoryMemory == MakeCallerFactory
SpecFactoryMemory == InitFactoryMemory /\ [][NextFactoryMemory]_vars

InitPool ==
    /\ PoolInit
    /\ CallerIdle
    /\ PloidyIdle
    /\ RegionsIdle
    /\ RealignIdle
    /\ TempDirIdle
    /\ ComponentsIdle
    /\ GeneratorIdle
    /\ FactoryIdle
    /\ ContigOrderIdle
    /\ SamIdle
    /\ HaplotypeIdle
    /\ RangeIdle
    /\ MeterIdle
    /\ WorkingDirIdle
NextPool == ConstructRealigner
SpecPool == InitPool /\ [][NextPool]_vars

InitContigOrder ==
    /\ ContigOrderInit
    /\ CallerIdle
    /\ PloidyIdle
    /\ RegionsIdle
    /\ RealignIdle
    /\ TempDirIdle
    /\ ComponentsIdle
    /\ GeneratorIdle
    /\ FactoryIdle
    /\ PoolIdle
    /\ SamIdle
    /\ HaplotypeIdle
    /\ RangeIdle
    /\ MeterIdle
    /\ WorkingDirIdle
NextContigOrder == GetContigs
SpecContigOrder == InitContigOrder /\ [][NextContigOrder]_vars

InitSamFetch ==
    /\ SamFetchInit
    /\ CallerIdle
    /\ PloidyIdle
    /\ RegionsIdle
    /\ RealignIdle
    /\ TempDirIdle
    /\ ComponentsIdle
    /\ GeneratorIdle
    /\ FactoryIdle
    /\ PoolIdle
    /\ ContigOrderIdle
    /\ HaplotypeIdle
    /\ RangeIdle
    /\ MeterIdle
    /\ WorkingDirIdle
NextSamFetch == FetchReads
SpecSamFetch == InitSamFetch /\ [][NextSamFetch]_vars

InitSamRead ==
    /\ SamReadInit
    /\ CallerIdle
    /\ PloidyIdle
    /\ RegionsIdle
    /\ RealignIdle
    /\ TempDirIdle
    /\ ComponentsIdle
    /\ GeneratorIdle
    /\ FactoryIdle
    /\ PoolIdle
    /\ ContigOrderIdle
    /\ HaplotypeIdle
    /\ RangeIdle
    /\ MeterIdle
    /\ WorkingDirIdle
NextSamRead == FetchReads
SpecSamRead == InitSamRead /\ [][NextSamRead]_vars

InitHaplotype ==
    /\ HaplotypeInit
    /\ CallerIdle
    /\ PloidyIdle
    /\ RegionsIdle
    /\ RealignIdle
    /\ TempDirIdle
    /\ ComponentsIdle
    /\ GeneratorIdle
    /\ FactoryIdle
    /\ PoolIdle
    /\ ContigOrderIdle
    /\ SamIdle
    /\ RangeIdle
    /\ MeterIdle
    /\ WorkingDirIdle
NextHaplotype == PushBack \/ PushFront \/ GetSequence
SpecHaplotype == InitHaplotype /\ [][NextHaplotype]_vars

InitRange ==
    /\ RangeInit
    /\ CallerIdle
    /\ PloidyIdle
    /\ RegionsIdle
    /\ RealignIdle
    /\ TempDirIdle
    /\ ComponentsIdle
    /\ GeneratorIdle
    /\ FactoryIdle
    /\ PoolIdle
    /\ ContigOrderIdle
    /\ SamIdle
    /\ HaplotypeIdle
    /\ MeterIdle
    /\ WorkingDirIdle
NextRange == MakeRegionRange
SpecRange == InitRange /\ [][NextRange]_vars

InitMeterLog ==
    /\ LogInit
    /\ CallerIdle
    /\ PloidyIdle
    /\ RegionsIdle
    /\ RealignIdle
    /\ TempDirIdle
    /\ ComponentsIdle
    /\ GeneratorIdle
    /\ FactoryIdle
    /\ PoolIdle
    /\ ContigOrderIdle
    /\ SamIdle
    /\ HaplotypeIdle
    /\ RangeIdle
    /\ WorkingDirIdle
NextMeterLog == LogCompletedRegion \/ LogCompletedContig
SpecMeterLog == InitMeterLog /\ [][NextMeterLog]_vars

InitMeterLife ==
    /\ LifeInit
    /\ CallerIdle
    /\ PloidyIdle
    /\ RegionsIdle
    /\ RealignIdle
    /\ TempDirIdle
    /\ ComponentsIdle
    /\ GeneratorIdle
    /\ FactoryIdle
    /\ PoolIdle
    /\ ContigOrderIdle
    /\ SamIdle
    /\ HaplotypeIdle
    /\ RangeIdle
    /\ WorkingDirIdle
NextMeterLife == LogCompletedRegion \/ LogCompletedContig \/ Start \/ Stop \/ Reset \/ Destroy
SpecMeterLife == InitMeterLife /\ [][NextMeterLife]_vars

InitMeterWorkers ==
    /\ ThreadInit
    /\ CallerIdle
    /\ PloidyIdle
    /\ RegionsIdle
    /\ RealignIdle
    /\ TempDirIdle
    /\ ComponentsIdle
    /\ GeneratorIdle
    /\ FactoryIdle
    /\ PoolIdle
    /\ ContigOrderIdle
    /\ SamIdle
    /\ HaplotypeIdle
    /\ RangeIdle
    /\ WorkingDirIdle
NextMeterWorkers == AcquireLock \/ MergeLocked \/ AddAndRelease
SpecMeterWorkers == InitMeterWorkers /\ [][NextMeterWorkers]_vars

InitSamCount ==
    /\ SamFetchInit
    /\ CallerIdle
    /\ PloidyIdle
    /\ RegionsIdle
    /\ RealignIdle
    /\ TempDirIdle
    /\ ComponentsIdle
    /\ GeneratorIdle
    /\ FactoryIdle
    /\ PoolIdle
    /\ ContigOrderIdle
    /\ HaplotypeIdle
    /\ RangeIdle
    /\ MeterIdle
    /\ WorkingDirIdle
NextSamCount == CountReads
SpecSamCount == InitSamCount /\ [][NextSamCount]_vars

InitWorkingDir ==
    /\ WorkingDirInit
    /\ CallerIdle
    /\ PloidyIdle
    /\ RegionsIdle
    /\ RealignIdle
    /\ TempDirIdle
    /\ ComponentsIdle
    /\ GeneratorIdle
    /\ FactoryIdle
    /\ PoolIdle
    /\ ContigOrderIdle
    /\ SamIdle
    /\ HaplotypeIdle
    /\ RangeIdle
    /\ MeterIdle
NextWorkingDir == GetWorkingDirectory
SpecWorkingDir == InitWorkingDir /\ [][NextWorkingDir]_vars

(***************************************************************************)
(* CLAIMS                                                                  *)
(***************************************************************************)
CallerDone == caller_pc = "done"

TrioRequested ==
    \/ caller_options.maternal
    \/ caller_options.paternal
    \/ caller_pedigree = "trio"

\* C1: whenever normal-sample is set, the selected caller is "cancer", for
\* every value of the caller option, every sample count, and whether or not
\* maternal-sample, paternal-sample or a trio pedigree is present.
C1_NormalSampleSelectsCancer ==
    (CallerDone /\ caller_options.normal) => caller_result = "cancer"

C1_Witness ==
    /\ CallerDone
    /\ caller_options.normal
    /\ caller_options.maternal
    /\ caller_pedigree = "trio"
    /\ caller_options.caller = "polyclone"
    /\ caller_samples = 3
    /\ caller_result = "cancer"

\* C2: without normal-sample, maternal-sample or paternal-sample or a trio
\* pedigree selects "trio" whatever the caller option says; when none of
\* these holds the selected caller is "trio" only if the caller option is.
C2_ParentOrPedigreeSelectsTrio ==
    (CallerDone /\ ~caller_options.normal) =>
        /\ TrioRequested => caller_result = "trio"
        /\ (~TrioRequested /\ caller_result = "trio") => caller_options.caller = "trio"

C2_Witness ==
    /\ CallerDone
    /\ ~caller_options.normal
    /\ caller_options.paternal
    /\ ~caller_options.maternal
    /\ caller_pedigree = "none"
    /\ caller_options.caller = "cell"
    /\ caller_result = "trio"

\* C3: with caller=population, no normal-sample, no parental sample and no
\* trio pedigree, the selected caller is "individual" for exactly 1 sample
\* and "population" for every other sample count; for caller in
\* {individual, polyclone, cell} it is the requested caller.
C3_PopulationOfOneIsIndividual ==
    (CallerDone /\ ~caller_options.normal /\ ~TrioRequested) =>
        /\ caller_options.caller = "population" =>
              caller_result = (IF caller_samples = 1 THEN "individual" ELSE "population")
        /\ caller_options.caller \in {"individual", "polyclone", "cell"} =>
              caller_result = caller_options.caller

C3_Witness ==
    /\ CallerDone
    /\ ~caller_options.normal
    /\ ~TrioRequested
    /\ caller_options.caller = "population"
    /\ caller_samples = 1
    /\ caller_result = "individual"

\* two gathered entries with the same key and different ploidies
PloidiesDisagree(s) ==
    \E i, j \in DOMAIN s :
        /\ s[i].sample = s[j].sample
        /\ s[i].contig = s[j].contig
        /\ s[i].ploidy # s[j].ploidy

\* C4: for every list of gathered ploidy entries (any caller but polyclone,
\* ploidy file present or not set), AmbiguousPloidy is raised and no map is
\* returned if two entries of one key disagree; otherwise no error is
\* raised and every key is set to its single ploidy.
C4_AmbiguityIsAnError ==
    (ploidy_pc \in {"done", "error"} /\ ploidy_caller # "polyclone"
        /\ ploidy_file.state # "missing") =>
        IF PloidiesDisagree(GatheredPloidies)
        THEN ploidy_error = "AmbiguousPloidy" /\ ~ploidy_map.returned
        ELSE /\ ploidy_error = "none"
             /\ ploidy_map.returned
             /\ ploidy_map.entries =
                   {<<e.sample, e.contig, e.ploidy>> : e \in Range(GatheredPloidies)}

\* the regions of a returned map, and what the map promises of them
ResultPositions == UNION {Covered(sr_result[c]) : c \in DOMAIN sr_result}

EffectiveRegionsWellFormed ==
    \A c \in DOMAIN sr_result :
        LET rs == sr_result[c]
        IN  /\ Covered(rs) # {}
            /\ \A i \in DOMAIN rs : rs[i].contig = c /\ ~is_empty(rs[i])
            /\ \A i, j \in DOMAIN rs :
                  i < j => /\ RegionLess(rs[i], rs[j])
                           /\ Positions(rs[i]) \cap Positions(rs[j]) = {}

EffectiveRegionsExact ==
    ResultPositions = Covered(sr_regions) \ Covered(sr_skips)

\* C5 as stated: for every list of input regions and every list of skip
\* regions the effective regions of each contig are sorted, pairwise
\* non-overlapping and non-empty, they cover exactly the positions of the
\* input regions that no skip region covers, and a contig with no
\* remaining position is absent.
C5_Original ==
    sr_pc = "done" => (EffectiveRegionsWellFormed /\ EffectiveRegionsExact)

\* C5 as amended: the same, for every list of non-empty input regions.
C5_EffectiveRegions ==
    (sr_pc = "done" /\ \A i \in DOMAIN sr_regions : ~is_empty(sr_regions[i])) =>
        (EffectiveRegionsWellFormed /\ EffectiveRegionsExact)

C5_Witness ==
    /\ sr_pc = "done"
    /\ sr_regions = <<Region(1, 0, 2), Region(1, 1, 3)>>
    /\ sr_skips = <<Region(1, 1, 2)>>
    /\ sr_result = (1 :> <<Region(1, 0, 1), Region(1, 2, 3)>>)

\* a list of one-based regions converted to zero-based: every region shifted by -1
ZeroBased(regions) == [i \in DOMAIN regions |-> shift(regions[i], -1)]

ValidOneBased(regions) == \A i \in DOMAIN regions : regions[i].begin >= 1

ReferencePositions == Covered(get_all_contig_regions)

\* C6: with one-based-indexing=true (and coordinates that are valid
\* one-based coordinates) the returned search regions cover the positions
\* obtained by first converting every input region and every skip region to
\* zero-based and then subtracting the skips; with no regions option they
\* are the whole reference minus the converted skips.
C6_OneBasedConsistent ==
    (sr_pc \in {"done", "error"} /\ sr_one_based
        /\ ValidOneBased(sr_regions) /\ ValidOneBased(sr_skips)) =>
        /\ sr_pc = "done"
        /\ ResultPositions =
              (IF sr_regions_set THEN Covered(ZeroBased(sr_regions)) ELSE ReferencePositions)
                 \ Covered(ZeroBased(sr_skips))

RealignDone == ra_pc = "done"

ContigHasCall(contig) == \E i \in DOMAIN ra_records : ra_records[i].contig = contig

TimesWritten(id) == Cardinality({w \in DOMAIN ra_written : ra_written[w].id = id})

\* C7: with copy_hom_ref_reads on and primary_only off, when realign returns
\* every read of the source on a contig that has a call has been written to
\* the destination exactly once
C7_EachReadWrittenOnce ==
    (RealignDone /\ ra_config.copy_hom_ref_reads /\ ~ra_config.primary_only) =>
        \A id \in DOMAIN ra_reads :
            ContigHasCall(ra_reads[id].contig) => TimesWritten(id) = 1

InvalidIn(ids) == SelectSeq(ids, LAMBDA id : ~ra_reads[id].valid)
ValidIn(ids) == SelectSeq(ids, LAMBDA id : ra_reads[id].valid)

RECURSIVE CountGiven(_, _)
CountGiven(calls, valid) ==
    IF calls = <<>> THEN 0
    ELSE Len(IF valid THEN ValidIn(Head(calls).given) ELSE InvalidIn(Head(calls).given))
         + CountGiven(Tail(calls), valid)

TempDirDone == td_pc = "done"

\* the candidates, in the order prefix, prefix-2, ..., up to the first that
\* does not already exist
CandidatesToFirstMissing ==
    LET missing == {k \in TempCandidates : td_fs[k] # "exists" \/ k \in td_created}
        stop == IF missing = {} THEN temp_dir_name_count_limit
                ELSE CHOOSE k \in missing : \A m \in missing : k <= m
    IN  [k \in 1..stop |-> k]

\* C9: the candidates are tried in order; the first that does not exist is
\* created and returned unless its creation fails with an error code;
\* UnwritableTempDirectory is raised only after such a failure or when every
\* candidate exists; when it is raised no directory has been created
C9_TempDirectoryNaming ==
    TempDirDone =>
        /\ td_tried = CandidatesToFirstMissing
        /\ td_outcome.kind = "raised" =>
              /\ td_created = {}
              /\ \/ \E i \in DOMAIN td_tried : td_fs[td_tried[i]] = "error"
                 \/ \A k \in TempCandidates : td_fs[k] = "exists"
        /\ td_outcome.kind = "returned" =>
              /\ td_created = {td_outcome.path}
              /\ td_outcome.path = td_tried[Len(td_tried)]

ComponentsDone == gc_pc = "done"

HasReadsFails == \E c \in GenomeContigs : gc_has_reads[c] = "throws"

\* C10: once the reference and the read manager are built, UnmatchedReference
\* is raised exactly when ignore-unmapped-contigs is off and has_reads throws
\* for some reference contig; it is never raised otherwise; when it is raised
\* both were built first and the output VCF writer was not made, so no output
\* file exists
C10_UnmatchedReference ==
    ComponentsDone =>
        /\ (gc_buildable.reference /\ gc_buildable.read_manager) =>
              (gc_outcome = "UnmatchedReference"
                  <=> (~gc_ignore_unmapped_contigs /\ HasReadsFails))
        /\ gc_outcome = "UnmatchedReference" =>
              /\ gc_buildable.reference /\ gc_buildable.read_manager
              /\ SubSeq(gc_trace, 1, 2) = <<"make_reference", "make_read_manager">>
              /\ \A i \in DOMAIN gc_trace : gc_trace[i] # "make_output_vcf_writer"
              /\ ~gc_output_exists
        /\ gc_outcome = "components" =>
              /\ gc_output_exists
              /\ gc_trace[Len(gc_trace)] = "make_output_vcf_writer"

\* UnmatchedReference has been raised for a reference with a contig that has
\* no reads and a later contig for which has_reads throws
C10_Witness ==
    /\ ComponentsDone
    /\ gc_outcome = "UnmatchedReference"
    /\ gc_has_reads[1] = "false"
    /\ gc_has_reads[2] = "throws"
    /\ Len(gc_trace) = 4

GeneratorReturned == vg_pc \in {"done", "error"}

\* the distinct source paths named by the three options
NamedSourcePaths ==
    Range(vg_in.sources) \cup Range(vg_in.file.paths)
        \cup (IF vg_in.regenotype = 0 THEN {} ELSE {vg_in.regenotype})

SourceConflict == vg_in.output # 0 /\ vg_in.output \in NamedSourcePaths
SourceMissing ==
    \/ vg_in.file.state = "missing"
    \/ \E p \in NamedSourcePaths : p \notin vg_in.exists

MissingFileErrors == {"MissingSourceVariantFile", "MissingSourceVariantFileOfPaths"}

\* C11: a source path equal to the output path raises
\* ConflictingSourceVariantFile and a missing source path or paths-file a
\* missing-file error (one of the two when both occur), no builder being
\* returned; otherwise the builder has exactly one VCF extractor for each
\* distinct source path
C11_SourceCandidatesValidated ==
    GeneratorReturned =>
        /\ (SourceConflict /\ ~SourceMissing) => vg_out.kind = "ConflictingSourceVariantFile"
        /\ (SourceMissing /\ ~SourceConflict) => vg_out.kind \in MissingFileErrors
        /\ (SourceMissing /\ SourceConflict) =>
              vg_out.kind \in MissingFileErrors \cup {"ConflictingSourceVariantFile"}
        /\ (~SourceMissing /\ ~SourceConflict) =>
              /\ vg_out.kind = "builder"
              /\ Range(vg_out.extractors) = NamedSourcePaths
              /\ Len(vg_out.extractors) = Cardinality(NamedSourcePaths)

\* C20: without assemble-all the trigger is the minimum somatic VAF (the
\* smaller of min-credible-somatic-frequency and
\* min-expected-somatic-frequency) under cancer calling, min-clone-frequency
\* for polyclone, else 0.1 below organism-ploidy 4 and 0.05 from 4 on; with
\* assemble-all true, assemble_all is set and there is no trigger
C20_AssemblerTrigger ==
    (GeneratorReturned /\ vg_out.kind = "builder") =>
        IF vg_in.assemble_all = "true"
        THEN vg_out.assemble_all /\ vg_out.trigger = 0
        ELSE /\ ~vg_out.assemble_all
             /\ vg_out.trigger =
                   (IF vg_in.caller = "cancer" \/ vg_in.normal_set
                    THEN Min2(vg_in.min_credible, vg_in.min_expected)
                    ELSE IF vg_in.caller = "polyclone" THEN vg_in.min_clone
                    ELSE IF vg_in.organism_ploidy < 4 THEN 10 ELSE 5)

FactoryReturned == cf_pc \in {"done", "error"}

UserErrors == {"BadSampleCount", "BadTrioSampleSet", "BadTrio", "BadTrioSamples"}

\* make_trio is reached without a pedigree that holds a trio
TrioFromOptions ==
    /\ FactoryReturned
    /\ cf_out.caller = "trio"
    /\ cf_in.pedigree # "trio"

BothParentsSet == cf_in.maternal # 0 /\ cf_in.paternal # 0
OneParentSet == (cf_in.maternal = 0) # (cf_in.paternal = 0)

ValidTrioComposition ==
    /\ Cardinality(cf_in.samples) = 3
    /\ BothParentsSet
    /\ cf_in.maternal # cf_in.paternal
    /\ {cf_in.maternal, cf_in.paternal} \subseteq cf_in.samples

\* C12: when the trio caller is selected without a trio pedigree, a sample
\* count other than 3 gives BadTrioSampleSet, equal parents BadTrio, a
\* parent that is no sample BadTrioSamples, only one parent set some
\* UserError, and a valid composition the Trio of the given mother and
\* father with the remaining sample as child
C12_TrioValidation ==
    TrioFromOptions =>
        /\ Cardinality(cf_in.samples) # 3 => cf_out.kind = "BadTrioSampleSet"
        /\ (Cardinality(cf_in.samples) = 3 /\ BothParentsSet
                /\ cf_in.maternal = cf_in.paternal) => cf_out.kind = "BadTrio"
        /\ (Cardinality(cf_in.samples) = 3 /\ BothParentsSet
                /\ cf_in.maternal # cf_in.paternal
                /\ ~({cf_in.maternal, cf_in.paternal} \subseteq cf_in.samples)) =>
              cf_out.kind = "BadTrioSamples"
        /\ OneParentSet => cf_out.kind \in UserErrors
        /\ ValidTrioComposition =>
              /\ cf_out.kind = "factory"
              /\ cf_out.trio.mother = cf_in.maternal
              /\ cf_out.trio.father = cf_in.paternal
              /\ cf_in.samples = {cf_out.trio.mother, cf_out.trio.father, cf_out.trio.child}

\* C13: BadSampleCount is raised exactly when the selected caller is
\* polyclone and the number of samples is not 1, and then the builder has
\* received no setting
C13_SampleCountCheck ==
    FactoryReturned =>
        /\ cf_out.kind = "BadSampleCount" <=>
              (cf_out.caller = "polyclone" /\ Cardinality(cf_in.samples) # 1)
        /\ cf_out.kind = "BadSampleCount" => cf_out.settings = <<>>

C13_Witness ==
    /\ FactoryReturned
    /\ cf_out.kind = "BadSampleCount"
    /\ cf_in.samples = {}

\* the number of workers the statement divides by
Workers ==
    IF cf_in.threads = -1 THEN 1
    ELSE IF cf_in.threads = 0 THEN cf_in.hardware_concurrency
    ELSE cf_in.threads

\* C19: with target-working-memory set the builder receives the footprint
\* max(target_bytes / workers, 100 MB), workers being at least 1; without it
\* no footprint is set
C19_WorkingMemoryPerWorker ==
    FactoryReturned =>
        IF cf_in.memory_set
        THEN /\ Workers >= 1
             /\ cf_out.kind = "factory"
             /\ cf_out.footprint = Max2(cf_in.target_bytes \div Workers, min_target_memory)
        ELSE /\ cf_out.footprint = -1
             /\ \A i \in DOMAIN cf_out.settings :
                   cf_out.settings[i] # "set_target_memory_footprint"

PoolMade == tp_pc = "done"

\* C18: threads = n > 1 gives min(n, hardware_concurrency) workers (n when
\* hardware_concurrency reports 0); threads = 1 or unset gives no pool and
\* no threading; threads = 0 gives no thread count and hardware_concurrency
\* workers; the pool is never empty because hardware_concurrency reports 0
C18_WorkerPoolSize ==
    PoolMade =>
        LET n == tp_in.threads
            cores == tp_in.hardware_concurrency
        IN  /\ (n > 1 /\ cores > 0) => tp_out.workers = Min2(n, cores)
            /\ n \in {1, -1} => (tp_out.workers = 0 /\ ~tp_out.threading_allowed)
            /\ n = 0 => tp_out.num_threads = 0
            /\ (n = 0 /\ cores > 0) => tp_out.workers = cores
            /\ (n \notin {1, -1} /\ cores = 0) => tp_out.workers > 0
            /\ (n > 1 /\ cores = 0) => tp_out.workers = n

C18_Witness ==
    /\ PoolMade
    /\ tp_in.threads > 1
    /\ tp_in.hardware_concurrency = 0
    /\ tp_out.workers = tp_in.threads

ContigsListed == co_pc = "done"

\* b precedes a under the configured order, as the statement names the orders
PrecedesInOrder(b, a) ==
    CASE co_in.order \in {"lexicographicalAscending", "unspecified"} -> b < a
      [] co_in.order = "lexicographicalDescending" -> b > a
      [] co_in.order = "contigSizeAscending" ->
            co_in.reference.size[b] < co_in.reference.size[a]
      [] co_in.order = "contigSizeDescending" ->
            co_in.reference.size[b] > co_in.reference.size[a]
      [] co_in.order = "asInReferenceIndex" ->
            \E i, j \in DOMAIN co_in.reference.names :
                /\ i < j
                /\ co_in.reference.names[i] = b
                /\ co_in.reference.names[j] = a
      [] OTHER -> FALSE

\* C17: the contig list is a permutation of the contigs that have search
\* regions, and no contig precedes, under the configured order, the contig
\* listed just before it; unspecified is name ascending
C17_ContigOutputOrder ==
    ContigsListed =>
        /\ Range(co_out) = co_in.regions
        /\ Len(co_out) = Cardinality(co_in.regions)
        /\ \A i \in 1..(Len(co_out) - 1) : ~PrecedesInOrder(co_out[i + 1], co_out[i])

C17_Witness ==
    /\ ContigsListed
    /\ co_in.order = "contigSizeDescending"
    /\ Len(co_out) = NumOrderContigs
    /\ co_in.reference.size[co_out[1]] > co_in.reference.size[co_out[Len(co_out)]]

FetchReturned == hs_pc \in {"done", "error"}

\* C14: a fetch over a region that holds a record with no RG tag ends in
\* an error
C14_MissingReadGroupIsAnError ==
    (FetchReturned /\ \E i \in DOMAIN hs_in.records : hs_in.records[i].rg = 0) =>
        hs_out.kind # "reads"

\* the number of bases of the read the operations account for
RECURSIVE query_span(_)
query_span(cigar) ==
    IF cigar = <<>> THEN 0
    ELSE (IF cigar[1].flag \in {"M", "I", "S"} THEN cigar[1].size ELSE 0)
            + query_span(Tail(cigar))

ReadWellFormed(read) ==
    /\ read.end - read.begin = reference_size(read.cigar)
    /\ query_span(read.cigar) = Len(read.sequence)
    /\ Len(read.sequence) = Len(read.qualities)
    /\ read.begin >= 0

\* what is cut from a record whose soft-clipped begin is before position 0
Overhang(b) == -soft_clipped_read_begin(b.cigar, b.pos)

\* C15: every read built has a region as long as the reference span of its
\* CIGAR, as many bases as qualities and as the query span of its CIGAR,
\* and a begin of at least 0; a read that began before 0 has lost the same
\* number of leading bases, qualities and soft-clipped positions
C15_ReadConstruction ==
    FetchReturned =>
        /\ hs_out.kind # "crash"
        /\ \A i \in DOMAIN hs_out.reads :
              LET read == hs_out.reads[i].read
                  b == hs_in.records[hs_out.reads[i].record]
              IN  /\ ReadWellFormed(read)
                  /\ Overhang(b) > 0 =>
                        /\ read.sequence = SubSeq([k \in 1..b.l_qseq |-> k],
                                                  Overhang(b) + 1, b.l_qseq)
                        /\ read.qualities = read.sequence
                        /\ query_span(read.cigar) = query_span(b.cigar) - Overhang(b)

\* C16: after pushes that did not raise, the explicit alleles are in strictly
\* increasing order, no two share a position, each begins where the one
\* before it ends, and the haplotype's region holds every one of them
C16_HaplotypeAlleles ==
    (hp_pc >= 0 /\ ~hp.raised) =>
        LET alleles == hp.explicit_alleles
        IN  /\ \A i \in 1..(Len(alleles) - 1) :
                  /\ RegionLess(alleles[i], alleles[i + 1])
                  /\ alleles[i].end = alleles[i + 1].begin
            /\ \A i, j \in DOMAIN alleles :
                  i # j => Positions(alleles[i]) \cap Positions(alleles[j]) = {}
            /\ \A i \in DOMAIN alleles :
                  /\ alleles[i].begin <= alleles[i].end
                  /\ contains(hp.region, alleles[i])

\* a gap has been filled behind the back and before the front
C16_Witness ==
    /\ hp_pc = 3
    /\ ~hp.raised
    /\ Len(hp.explicit_alleles) = 5

RangeReturned == rr_pc \in {"done", "error"}

\* C21: for "A to B" with B's contig after A's in the reference index the
\* result is A's contig from A.begin to its end, the contigs between in
\* full and B's contig from 0 to B.end; on one contig, with A not after B
\* in the order of regions, it is the region from A.begin to B.end; in
\* every other case BadRegionRange is raised and no region returned
C21_RegionRange ==
    RangeReturned =>
        LET A == rr_in.lhs
            B == rr_in.rhs
        IN  IF A.contig < B.contig
            THEN /\ rr_out.kind = "regions"
                 /\ rr_out.regions =
                       [k \in 1..(B.contig - A.contig + 1) |->
                           Region(A.contig + k - 1,
                                  IF k = 1 THEN A.begin ELSE 0,
                                  IF A.contig + k - 1 = B.contig THEN B.end
                                  ELSE MaxRangePos)]
            ELSE IF A.contig = B.contig /\ ~RegionLess(B, A)
            THEN /\ rr_out.kind = "regions"
                 /\ rr_out.regions = <<Region(A.contig, A.begin, B.end)>>
            ELSE /\ rr_out.kind = "BadRegionRange"
                 /\ rr_out.regions = <<>>

MeterLive == pm_pc = "live"

\* C22: after any sequence of log_completed(region) calls the completed
\* regions are pairwise non-overlapping, num_bp_completed_ is the number of
\* distinct positions covered by the regions logged, and the last call added
\* exactly the number of positions of its region not covered before
C22_CompletedPositions ==
    MeterLive =>
        /\ \A i, j \in DOMAIN pm.completed_regions :
              i # j => ~overlaps(pm.completed_regions[i], pm.completed_regions[j])
        /\ Covered(pm.completed_regions) = pm.logged
        /\ pm.num_bp_completed = Cardinality(pm.logged)
        /\ pm.new_bp_processed = pm.fresh

\* the last call added one position and left one completed region over the
\* whole contig: its region was merged with regions completed before
C22_Witness ==
    /\ MeterLive
    /\ pm.new_bp_processed = 1
    /\ pm.completed_regions = <<Region(1, 0, MaxMeterPos)>>
    /\ pm.num_bp_completed = MaxMeterPos

\* C23: when every region logged lies inside the search regions and contigs
\* are logged whole, num_bp_completed_ never exceeds num_bp_to_search_,
\* also when the search regions of a contig have gaps between them
C23_NeverOverSearched ==
    (MeterLive /\ pm.inside) => pm.num_bp_completed <= pm.num_bp_to_search

MeterMade == pm_pc \in {"live", "destroyed"}

\* C25: the final "100%" line is written at most once between two resets:
\* once stop() has written it neither a second stop() nor the destructor
\* writes it again; when stop() was never called the destructor writes it
\* exactly when the region set is non-empty and a position was completed
C25_FinalLineOnce ==
    MeterMade =>
        /\ pm.final_lines <= 1
        /\ pm.closed_lines <= 1
        /\ pm.done => ~pm.destructor_wrote
        /\ (pm_pc = "destroyed" /\ ~pm.stop_called) =>
              (pm.destructor_wrote <=> (pm.regions # <<>> /\ pm.num_bp_completed > 0))

\* the meter was stopped after a reset that wrote the line, stopped again,
\* and destroyed
C25_Witness ==
    /\ pm_pc = "destroyed"
    /\ pm.closed_lines = 1
    /\ pm.final_lines = 1
    /\ pm.done
    /\ pm.num_bp_completed > 0

\* the destructor of a meter that was never stopped wrote the line
C25_DestructorWitness ==
    /\ pm_pc = "destroyed"
    /\ ~pm.stop_called
    /\ pm.destructor_wrote

RECURSIVE LogSequentially(_, _)
LogSequentially(meter, regions) ==
    IF regions = <<>> THEN meter
    ELSE LogSequentially(log_completed(meter, Head(regions)), Tail(regions))

\* the meters that the calls of the threads leave when run one after
\* another, in every order
SequentialMeters ==
    {LogSequentially(NewMeter(pm.regions), [i \in DOMAIN order |-> pm_thr[order[i]].region]) :
        order \in {o \in [1..Cardinality(MeterThreads) -> MeterThreads] :
                      \A i, j \in DOMAIN o : i # j => o[i] # o[j]}}

ThreadsReturned ==
    /\ pm_thr # <<>>
    /\ \A t \in DOMAIN pm_thr : pm_thr[t].pc = "returned"

InCriticalSection == {t \in DOMAIN pm_thr : pm_thr[t].pc \in {"locked", "merged"}}

RECURSIVE CountOverlapped(_)
CountOverlapped(calls) ==
    IF calls = <<>> THEN 0 ELSE Len(Head(calls).given) + CountOverlapped(Tail(calls))

\* C26: n_reads_assigned + n_reads_unassigned is the number of reads that
\* overlapped a genotype, and n_reads_assigned counts every valid read that
\* was realigned to a haplotype, of a homozygous genotype or not
C26_ReportCountsEveryRead ==
    /\ ra_report.n_reads_assigned + ra_report.n_reads_unassigned = CountOverlapped(ra_calls)
    /\ ra_report.n_reads_assigned = CountGiven(ra_calls, TRUE)

\* the calls at which a block begins: the first, and every call whose phase
\* region does not overlap that of the call before it
BlockStarts ==
    {i \in DOMAIN ra_records :
        i = 1 \/ ~overlaps(PhaseRegion(i - 1), PhaseRegion(i))}

\* C27: the blocks partition the calls of the VCF in order: the iterator
\* always rests on the first call of a block or at the end, one genotype
\* was made for every block before it, and the block read next runs from
\* the iterator up to the last call before the next block begins
C27_BlocksPartitionCalls ==
    ra_pc \in {"loop", "done"} =>
        /\ ra_first \in BlockStarts \cup {Len(ra_records) + 1}
        /\ Len(ra_calls) = Cardinality({s \in BlockStarts : s < ra_first})
        /\ ra_first <= Len(ra_records) =>
              LET back == read_next_block(ra_first)
              IN  /\ back \in ra_first..Len(ra_records)
                  /\ \A i \in (ra_first + 1)..back : i \notin BlockStarts
                  /\ back < Len(ra_records) => (back + 1) \in BlockStarts
        /\ RealignDone => ra_first = Len(ra_records) + 1

\* realign has returned after a block of two calls in one phase set
C27_Witness ==
    /\ RealignDone
    /\ Len(ra_records) = 2
    /\ BlockStarts = {1}
    /\ Len(ra_calls) = 1

\* realign has returned after two blocks of one call each
C27_TwoBlocksWitness ==
    /\ RealignDone
    /\ BlockStarts = {1, 2}
    /\ Len(ra_calls) = 2

CountReturned == hs_pc \in {"done", "error"} /\ hs_out.kind # "reads"

\* every record has a CIGAR and qualities and a read group of the header
AllRecordsValid ==
    \A i \in DOMAIN hs_in.records :
        /\ hs_in.records[i].rg \in 1..NumReadGroups
        /\ \A d \in dereference(hs_in.records[i]) : d.kind = "read"

\* C28: count_reads(sample, region) is the number of records of the region
\* whose read group maps to the sample, and so the size of
\* fetch_reads(sample, region) when all records are valid, wherever the
\* records of the sample lie among those of other samples
C28_CountIsFetchSize ==
    (CountReturned /\ hs_in.sample # 0 /\ AllRecordsValid) =>
        /\ hs_out.kind = "count"
        /\ hs_out.count =
              Cardinality({i \in DOMAIN hs_in.records : hs_in.records[i].rg = hs_in.sample})
        /\ \A fetched \in hts_fetch_reads(hs_in, 1, <<>>) :
              fetched.kind = "reads" /\ Len(fetched.reads) = hs_out.count

WorkingDirReturned == wd_pc \in {"done", "error"}

\* C30: with working-directory set the expanded path is returned only when
\* it names an existing directory, and InvalidWorkingDirectory is raised
\* for a path that does not exist or is not a directory; with the option
\* not set the current path is returned
C30_WorkingDirectory ==
    WorkingDirReturned =>
        LET expanded == [home |-> wd_in.working_directory.tilde,
                         name |-> wd_in.working_directory.name]
        IN  IF ~wd_in.is_set
            THEN wd_out = [kind |-> "path", path |-> CurrentPath]
            ELSE IF wd_in.fs[expanded] = "directory"
            THEN wd_out = [kind |-> "path", path |-> expanded]
            ELSE wd_out.kind = "InvalidWorkingDirectory"

\* the allele of the push was out of order for the alleles the haplotype had
OutOfOrder(h, offered) ==
    /\ h.explicit_alleles # <<>>
    /\ IF offered.op = "push_back"
       THEN ~is_after(offered.allele, h.explicit_alleles[Len(h.explicit_alleles)])
       ELSE ~is_after(h.explicit_alleles[1], offered.allele)

\* C29: a push_back or push_front with an out-of-order allele raises and
\* leaves the explicit alleles, the region of the haplotype and its cached
\* sequence as they were
C29_OutOfOrderPushChangesNothing ==
    [][(hp_pc' = hp_pc + 1 /\ OutOfOrder(hp, hp'.offered)) =>
          /\ hp'.raised
          /\ hp'.explicit_alleles = hp.explicit_alleles
          /\ hp'.region = hp.region
          /\ hp'.cached_sequence = hp.cached_sequence]_vars

\* an out-of-order push_front on a haplotype with alleles and a cached
\* sequence has raised
C29_Witness ==
    /\ hp_pc >= 2
    /\ hp.raised
    /\ hp.cached_sequence
    /\ hp.offered.op = "push_front"
    /\ OutOfOrder(hp, hp.offered)

====
